---- MODULE Spec2Model ----
(***************************************************************************)
(* A model of the pyftdi_win driver session (src/pyftdi/ftdi.py, class     *)
(* Ftdi) running over the D2XX transport.                                  *)
(*                                                                         *)
(* The state is three records:                                             *)
(*   ftdi  the fields of the Ftdi object (named as in the source, without  *)
(*         the leading underscore),                                        *)
(*   dev   the chip and the D2XX transport behind the handle,              *)
(*   last  what the most recent public operation did: its name and         *)
(*         arguments, the transport calls it issued, the exception it      *)
(*         raised (or "none"), the value it returned, and what it started  *)
(*         from.                                                           *)
(*                                                                         *)
(* Every public operation is one action.  Its body is an operator on a     *)
(* context record c = [f, d, o, calls, rc, exc, msg, ret, ...] that is     *)
(* threaded through the statements of the method.  What the transport      *)
(* answers is not ours to choose: c.failAt says which D2XX call of the     *)
(* operation returns an error status, and an operation that transfers data *)
(* yields the set of contexts it can end in, one for every number of bytes *)
(* each FT_Read and FT_Write may transfer.                                 *)
(***************************************************************************)
EXTENDS Integers, Sequences, FiniteSets, TLC

VARIABLES ftdi, dev, last

vars == <<ftdi, dev, last>>

-----------------------------------------------------------------------------
(* Bounds of the model                                                     *)

\* the longest byte string handed to write_data
MaxWriteLen == 3
\* the largest partial count FT_Write reports (it may always report all)
MaxAccept == 2
\* the largest explicit chunk size given to write_data_set_chunksize
MaxChunk == 2
\* read sizes: 1..MaxPackets packets, and up to MaxSmallRead bytes past them
MaxSmallRead == 1
MaxPackets == 2
\* the attempt argument of read_data_bytes
MaxAttempt == 2
\* the bursts of payload bytes the chip receives from the line
MaxSends == 1
\* FT_Read may report up to this many bytes, all there is, or a count this
\* close to the max-packet-size boundary
ReadSlack == 0
\* the FT_Read calls of one read_data_bytes call
MaxReads == 3
\* the longest read of the latency specification
MaxReadLen == 2
\* the largest threshold given to set_dynamic_latency
MaxThreshold == 2
\* the payload-absent reports counted in _latency_count
MaxCount == 3
\* the answer bytes the chip may hold for the host
MaxQueued == 2
\* the byte values of the images given to overwrite_eeprom
MaxFill == 1
\* the transport handles that may be open at once
MaxOpened == 2
\* the latest D2XX call of an operation that the transport fails
MaxFailAt == 3
\* the latest D2XX call of an open_bitbang_from_device that the transport
\* fails: the call opens with 9 calls and then makes 6
MaxOpenFailAt == 15

-----------------------------------------------------------------------------
(* Program constants                                                       *)

FT232AM == 512
FT232BM == 1024
FT2232C == 1280
FT232R == 1536
FT2232H == 1792
FT4232H == 2048
FT232H == 2304
FT230X == 4096

LATENCY_MIN == 12
LATENCY_MAX == 255
LATENCY_EEPROM_FT232R == 77

TX_EMPTY_BITS == 96
DISABLE_CLK_DIV5 == 138
ENABLE_CLK_DIV5 == 139
SET_BITS_LOW == 128
SET_BITS_HIGH == 130
LOOPBACK_START == 132
LOOPBACK_END == 133
SET_TCK_DIVISOR == 134
ENABLE_CLK_3PHASE == 140
DISABLE_CLK_3PHASE == 141
ENABLE_CLK_ADAPTIVE == 150
DISABLE_CLK_ADAPTIVE == 151
DRIVE_ZERO == 158
BUS_CLOCK_BASE == 6000000
BUS_CLOCK_HIGH == 30000000
\* the bogus op-code of the MPSSE self-test and the chip's "bad command"
BAUDRATE_REF_BASE == 3000000
BAUDRATE_REF_HIGH == 12000000
BITBANG_BAUDRATE_RATIO_BASE == 16
BITBANG_BAUDRATE_RATIO_HIGH == 5
BAUDRATE_TOLERANCE == 3
FRAC_DIV_CODE == <<0, 3, 2, 4, 1, 5, 6, 7>>

BogusOpcode == 171
BadCommand == 250
MaxPacketSize == 1024
DefaultChunkSize == 4096

\* FIFO_SIZES[device_version] = (TX, RX); a KeyError is FtdiFeatureError.
FIFO_SIZES ==
  [v \in {FT232AM, FT232BM, FT2232C, FT232R, FT2232H, FT4232H, FT232H, FT230X} |->
     CASE v = FT232AM -> <<128, 128>>
       [] v = FT232BM -> <<128, 384>>
       [] v = FT2232C -> <<128, 384>>
       [] v = FT232R -> <<256, 128>>
       [] v = FT2232H -> <<4096, 4096>>
       [] v = FT4232H -> <<2048, 2048>>
       [] v = FT232H -> <<1024, 1024>>
       [] v = FT230X -> <<512, 512>>]

\* devType reported by FT_GetDeviceInfo -> device version
DevVersionOf(devType) ==
  CASE devType = 0 -> FT232BM
    [] devType = 1 -> FT232AM
    [] devType = 4 -> FT2232C
    [] devType = 5 -> FT232R
    [] devType = 6 -> FT2232H
    [] devType = 7 -> FT4232H
    [] devType = 8 -> FT232H
    [] devType = 9 -> FT230X
    [] OTHER -> 0

-----------------------------------------------------------------------------
(* Python helpers                                                          *)

Min(a, b) == IF a < b THEN a ELSE b
Max(a, b) == IF a > b THEN a ELSE b

\* s[a:b] of a Python sequence, 0 <= a, 0 <= b (0-based, end excluded, clamped)
Slice(s, a, b) == SubSeq(s, a + 1, Min(b, Len(s)))

\* a & b and a ^ b on non-negative integers
RECURSIVE BitAnd(_, _)
BitAnd(a, b) ==
  IF a = 0 \/ b = 0 THEN 0
  ELSE (a % 2) * (b % 2) + 2 * BitAnd(a \div 2, b \div 2)

RECURSIVE BitOr(_, _)
BitOr(a, b) ==
  IF a = 0 THEN b
  ELSE IF b = 0 THEN a
  ELSE (IF a % 2 = 1 \/ b % 2 = 1 THEN 1 ELSE 0) + 2 * BitOr(a \div 2, b \div 2)

RECURSIVE BitXor(_, _)
BitXor(a, b) ==
  IF a = 0 THEN b
  ELSE IF b = 0 THEN a
  ELSE (((a % 2) + (b % 2)) % 2) + 2 * BitXor(a \div 2, b \div 2)

-----------------------------------------------------------------------------
(* The context of one operation                                            *)

\* failAt: which D2XX call of this operation the transport fails (0: none);
\* calls: the D2XX calls issued so far; rc: the status of the last one;
\* sent: the bytes the transport accepted; acks: the byte count each
\* FT_Write reported; nreads: the FT_Read calls made; packets: what _read
\* returned, call by call; reports: the arguments of the _adapt_latency
\* calls; requests: the arguments of the request_gen calls; faults: the
\* D2XX calls that returned an error status; resp: what the MPSSE self-test
\* read back; bytes_: what each validate_mpsse read.
Ctx(failAt) ==
  [f |-> ftdi, d |-> dev, failAt |-> failAt, calls |-> <<>>, rc |-> 0,
   exc |-> "none", msg |-> "", ret |-> 0, sent |-> <<>>, acks |-> <<>>,
   nreads |-> 0, packets |-> <<>>, reports |-> <<>>, requests |-> <<>>,
   faults |-> 0, resp |-> <<>>, bytes_ |-> <<>>]

Ok(c) == c.exc = "none"

\* F of the outcome x, with the outcome worked out once
Bind(x, F(_)) == CHOOSE r \in {F(v) : v \in {x}} : TRUE

Raise(c, kind, text) == [c EXCEPT !.exc = kind, !.msg = text]

\* One D2XX call on self._handle.  Before the first open the object has
\* neither _d2xx nor _handle (AttributeError).  The call is logged; it
\* returns non-zero on a handle that is not open and when the oracle makes
\* this call the failing one.
Call(c, fn, args) ==
  IF c.f.handle = "unset" THEN Raise(c, "AttributeError", "_d2xx")
  ELSE LET n == Len(c.calls) + 1
           bad == c.f.handle # "open" \/ c.failAt = n
       IN [c EXCEPT !.calls = Append(@, [fn |-> fn, args |-> args]),
                    !.rc = IF bad THEN 1 ELSE 0,
                    !.faults = IF bad THEN @ + 1 ELSE @]

\* The call went through and the transport reported success.
Went(c) == Ok(c) /\ c.rc = 0

\* The planned failure, if any, happened.
FailUsed(c) == c.failAt <= Len(c.calls)

\* what an operation started from: the unread part of the read cache and
\* the dynamic-latency fields
Before ==
  [cached |-> SubSeq(ftdi.readbuffer, ftdi.readoffset + 1, Len(ftdi.readbuffer)),
   latency |-> ftdi.latency, latency_count |-> ftdi.latency_count]

Commit(name, args, c) ==
  /\ ftdi' = c.f
  /\ dev' = c.d
  /\ last' = [op |-> name, args |-> args, calls |-> c.calls, exc |-> c.exc,
              msg |-> c.msg, ret |-> c.ret, sent |-> c.sent,
              acks |-> c.acks, nreads |-> c.nreads, packets |-> c.packets,
              reports |-> c.reports, requests |-> c.requests,
              faults |-> c.faults, resp |-> c.resp, bytes_ |-> c.bytes_,
              before |-> Before]

-----------------------------------------------------------------------------
(* Session queries                                                         *)

is_connected(c) == c.f.handle = "open"

is_mpsse(c) == c.f.bitmode = "MPSSE"

has_mpsse(c) == c.f.devVersion \in {FT2232C, FT2232H, FT4232H, FT232H}

is_H_series(c) == c.f.devVersion \in {FT2232H, FT4232H, FT232H}

port_width(c) ==
  IF c.f.devVersion \in {FT2232H, FT232H} THEN 16
  ELSE IF c.f.devVersion \in {FT2232C} THEN 12
  ELSE 8

has_wide_port(c) == port_width(c) > 8

is_mpsse_interface(c, interface) ==
  IF ~has_mpsse(c) THEN FALSE
  ELSE IF c.f.devVersion = FT4232H /\ interface > 2 THEN FALSE
  ELSE TRUE

\* device_version and the properties built on it raise FtdiError when the
\* session is not connected, and AttributeError before the first open.
device_version(c) ==
  IF c.f.handle = "unset" THEN Raise(c, "AttributeError", "_handle")
  ELSE IF ~is_connected(c)
       THEN Raise(c, "FtdiError", "Device characteristics not yet known")
  ELSE [c EXCEPT !.ret = c.f.devVersion]

\* fifo_sizes: c.ret is the (TX, RX) pair
fifo_sizes(c) ==
  LET c1 == device_version(c)
  IN IF ~Ok(c1) THEN c1
     ELSE IF c1.ret \notin DOMAIN FIFO_SIZES
          THEN Raise(c1, "FtdiFeatureError", "Unsupported device")
     ELSE [c1 EXCEPT !.ret = FIFO_SIZES[c1.ret]]

-----------------------------------------------------------------------------
(* Control requests                                                        *)

_update_timeouts(c) ==
  LET c1 == Call(c, "FT_SetTimeouts", <<>>)
  IN IF Ok(c1) /\ c1.rc # 0
     THEN Raise(c1, "FtdiError", "Unable to set read/write timeouts")
     ELSE c1

_get_max_packet_size(c) ==
  IF c.f.handle = "unset" THEN Raise(c, "AttributeError", "_handle")
  ELSE IF ~is_connected(c) THEN Raise(c, "IOError", "Device is not yet known")
  ELSE [c EXCEPT !.ret = MaxPacketSize]

\* purge_rx_buffer that leaves the read cache as it is
purge_rx_buffer_keep_cache(c) ==
  LET c1 == Call(c, "FT_Purge", <<1>>)
  IN IF ~Ok(c1) THEN c1
     ELSE IF c1.rc # 0 THEN Raise(c1, "FtdiError", "Unable to flush RX buffer")
     ELSE [c1 EXCEPT !.d.rx = <<>>]

\* purge_rx_buffer without "self._readoffset = 0"
purge_rx_buffer_keep_offset(c) ==
  LET c1 == Call(c, "FT_Purge", <<1>>)
  IN IF ~Ok(c1) THEN c1
     ELSE IF c1.rc # 0 THEN Raise(c1, "FtdiError", "Unable to flush RX buffer")
     ELSE [c1 EXCEPT !.d.rx = <<>>, !.f.readbuffer = <<>>]

\* FT_Purge(1) drops what the chip holds for the host.
purge_rx_buffer(c) ==
  LET c1 == Call(c, "FT_Purge", <<1>>)
  IN IF ~Ok(c1) THEN c1
     ELSE IF c1.rc # 0 THEN Raise(c1, "FtdiError", "Unable to flush RX buffer")
     ELSE [c1 EXCEPT !.d.rx = <<>>, !.f.readoffset = 0, !.f.readbuffer = <<>>]

purge_tx_buffer(c) ==
  LET c1 == Call(c, "FT_Purge", <<2>>)
  IN IF Ok(c1) /\ c1.rc # 0
     THEN Raise(c1, "FtdiError", "Unable to flush TX buffer")
     ELSE c1

purge_buffers(c) ==
  LET c1 == purge_rx_buffer(c)
  IN IF ~Ok(c1) THEN c1 ELSE purge_tx_buffer(c1)

_reset_device(c) ==
  LET c1 == Call(c, "FT_ResetDevice", <<>>)
  IN IF Ok(c1) /\ c1.rc # 0
     THEN Raise(c1, "FtdiError", "Unable to reset FTDI device")
     ELSE c1

\* FT_CyclePort re-enumerates the port; the chip's state as modelled here is
\* not touched by it.
_reset_usb_device(c) ==
  LET c1 == Call(c, "FT_CyclePort", <<>>)
  IN IF Ok(c1) /\ c1.rc # 0
     THEN Raise(c1, "FtdiError", "Unable to cycle port on FTDI device")
     ELSE c1

\* reset that drops the read cache once the device is reset
reset_clear_cache(c, usb_reset) ==
  IF c.f.handle = "unset" THEN Raise(c, "AttributeError", "_handle")
  ELSE IF ~is_connected(c) THEN Raise(c, "FtdiError", "Not connected")
  ELSE LET c1 == _reset_device(c)
           c2 == [c1 EXCEPT !.f.readbuffer = <<>>, !.f.readoffset = 0]
       IN IF ~Ok(c1) THEN c1 ELSE IF ~usb_reset THEN c2 ELSE _reset_usb_device(c2)

\* is_connected reads self._handle, which a session that was never opened
\* does not have.
reset(c, usb_reset) ==
  IF c.f.handle = "unset" THEN Raise(c, "AttributeError", "_handle")
  ELSE IF ~is_connected(c) THEN Raise(c, "FtdiError", "Not connected")
  ELSE LET c1 == _reset_device(c)
       IN IF ~Ok(c1) \/ ~usb_reset THEN c1 ELSE _reset_usb_device(c1)

\* set_bitmode that stores the mode whatever the transport answers
set_bitmode_store_refused(c, bitmask, mode) ==
  LET c1 == Call(c, "FT_SetBitMode", <<bitmask % 256, mode>>)
  IN IF ~Ok(c1) THEN c1
     ELSE IF c1.rc # 0
          THEN Raise([c1 EXCEPT !.f.bitmode = mode], "FtdiError",
                     "Unable to set bitmode")
     ELSE [c1 EXCEPT !.d.bitmode = mode, !.d.pending = <<>>,
                     !.f.bitmode = mode]

\* lines 1273-1281: the mode is stored after the transport took the request
set_bitmode(c, bitmask, mode) ==
  LET c1 == Call(c, "FT_SetBitMode", <<bitmask % 256, mode>>)
  IN IF ~Ok(c1) THEN c1
     ELSE IF c1.rc # 0 THEN Raise(c1, "FtdiError", "Unable to set bitmode")
     ELSE [c1 EXCEPT !.d.bitmode = mode, !.d.pending = <<>>,
                     !.f.bitmode = mode]

\* The direction is checked after the mask; the pair is stored only when both
\* pass.
set_cbus_direction_store_first(c, mask, direction) ==
  IF ~(0 <= mask /\ mask <= 15)
  THEN Raise(c, "ValueError", "Invalid CBUS gpio mask")
  ELSE LET c1 == [c EXCEPT !.f.cbus_pins = <<mask, direction>>]
       IN IF ~(0 <= direction /\ direction <= 15)
          THEN Raise(c1, "ValueError", "Invalid CBUS gpio direction")
          ELSE c1

set_cbus_direction(c, mask, direction) ==
  IF ~(0 <= mask /\ mask <= 15)
  THEN Raise(c, "ValueError", "Invalid CBUS gpio mask")
  ELSE IF ~(0 <= direction /\ direction <= 15)
       THEN Raise(c, "ValueError", "Invalid CBUS gpio direction")
  ELSE [c EXCEPT !.f.cbus_pins = <<mask, direction>>]

\* the levels FT_GetBitMode may find on the pins
PinLevels == {0, 255}

\* read_pins: one outcome for each level of the pins
read_pins(c) ==
  LET c1 == Call(c, "FT_GetBitMode", <<>>)
  IN IF ~Ok(c1) THEN {c1}
     ELSE IF c1.rc # 0 THEN {Raise(c1, "FtdiError", "Unable to read pins")}
     ELSE {[c1 EXCEPT !.ret = pins] : pins \in PinLevels}

\* the finally clause of get_cbus_gpio and set_cbus_gpio; an exception it
\* raises replaces the one that was on its way
CbusFinally(c, oldmode) ==
  IF oldmode = c.f.bitmode THEN c
  ELSE LET c1 == set_bitmode([c EXCEPT !.exc = "none", !.msg = ""], 0, oldmode)
       IN IF Ok(c1) THEN [c1 EXCEPT !.exc = c.exc, !.msg = c.msg, !.ret = c.ret]
          ELSE c1

\* get_cbus_gpio with the test of the mode left out
get_cbus_gpio_any_mode(c) ==
  LET mask == c.f.cbus_pins[1]
      direction == c.f.cbus_pins[2]
      outv == BitOr(direction * 16, c.f.cbus_out)
      oldmode == c.f.bitmode
      c1 == set_bitmode(c, outv, "CBUS")
      read == IF Ok(c1) THEN read_pins(c1) ELSE {c1}
  IN IF BitAnd(mask, 15 - direction) = 0
     THEN {Raise(c, "FtdiError", "No CBUS IO configured as input")}
     ELSE {LET c3 == CbusFinally(c2, oldmode)
           IN IF Ok(c3)
              THEN [c3 EXCEPT !.ret = BitAnd(BitAnd(c2.ret, 15 - direction), mask)]
              ELSE c3 :
             c2 \in read}

get_cbus_gpio(c) ==
  IF c.f.bitmode \notin {"RESET", "CBUS"}
  THEN {Raise(c, "FtdiError", "CBUS gpio not available from current mode")}
  ELSE get_cbus_gpio_any_mode(c)

set_cbus_gpio(c, pins) ==
  LET mask == c.f.cbus_pins[1]
      direction == c.f.cbus_pins[2]
      masked == BitAnd(pins, BitAnd(mask, direction))
      value == BitOr(direction * 16, masked)
      oldmode == c.f.bitmode
      c1 == set_bitmode(c, value, "CBUS")
      c2 == IF Ok(c1) THEN [c1 EXCEPT !.f.cbus_out = masked] ELSE c1
  IN IF c.f.bitmode \notin {"RESET", "CBUS"}
     THEN Raise(c, "FtdiError", "CBUS gpio not available from current mode")
     ELSE IF ~(0 <= pins /\ pins <= 15)
          THEN Raise(c, "ValueError", "Invalid CBUS gpio pins")
     ELSE IF BitAnd(mask, direction) = 0
          THEN Raise(c, "FtdiError", "No CBUS IO configured as output")
     ELSE CbusFinally(c2, oldmode)

set_latency_timer(c, lat) ==
  IF ~(LATENCY_MIN <= lat /\ lat <= LATENCY_MAX)
  THEN Raise(c, "ValueError", "Latency out of range")
  ELSE LET c1 == Call(c, "FT_SetLatencyTimer", <<lat>>)
       IN IF ~Ok(c1) THEN c1
          ELSE IF c1.rc # 0 THEN Raise(c1, "FtdiError", "Unable to latency timer")
          ELSE [c1 EXCEPT !.d.latency = lat]

get_latency_timer(c) ==
  LET c1 == Call(c, "FT_GetLatencyTimer", <<>>)
  IN IF ~Ok(c1) THEN c1
     ELSE IF c1.rc # 0 THEN Raise(c1, "FtdiError", "Unable to get latency")
     ELSE [c1 EXCEPT !.ret = c1.d.latency]

-----------------------------------------------------------------------------
(* open_from_device, close                                                 *)

\* FT_OpenEx fills the fresh c_void_p() on success; a c_void_p() left NULL
\* is falsy, like the None that close() stores.
FT_OpenEx(c) ==
  LET n == Len(c.calls) + 1
      c1 == [c EXCEPT !.calls = Append(@, [fn |-> "FT_OpenEx", args |-> <<>>]),
                      !.f.handle = "null"]
  IN IF c.failAt = n THEN [c1 EXCEPT !.rc = 1, !.faults = @ + 1]
     ELSE [c1 EXCEPT !.rc = 0, !.f.handle = "open", !.d.opened = @ + 1]

\* lines 599-646, after the handle has been obtained
open_from_device_configure(c) ==
  Bind(Call(c, "FT_GetDeviceInfo", <<>>), LAMBDA c1 :
  IF c1.rc # 0 THEN Raise(c1, "TypeError", "not enough arguments for format string")
  ELSE
  Bind(Call([c1 EXCEPT !.f.devVersion = DevVersionOf(c1.d.devType)],
            "FT_SetUSBParameters", <<65536, 65536>>), LAMBDA c2 :
  IF c2.rc # 0 THEN Raise(c2, "TypeError", "not enough arguments for format string")
  ELSE
  Bind(_update_timeouts(c2), LAMBDA c3 :
  IF ~Ok(c3) THEN c3 ELSE
  Bind(_get_max_packet_size(c3), LAMBDA c4 :
  IF ~Ok(c4) THEN c4 ELSE
  Bind(purge_buffers([c4 EXCEPT !.f.max_packet_size = c4.ret,
                                !.f.readoffset = 0,
                                !.f.readbuffer = <<>>]), LAMBDA c5 :
  IF ~Ok(c5) THEN c5 ELSE
  Bind(_reset_device(c5), LAMBDA c6 :
  IF ~Ok(c6) THEN c6 ELSE
  Bind(set_bitmode(c6, 0, "RESET"), LAMBDA c7 :
  IF ~Ok(c7) THEN c7 ELSE
     set_latency_timer([c7 EXCEPT !.f.latency_threshold = 0], LATENCY_MIN))))))))

open_from_device(c, interface) ==
  LET c1 == FT_OpenEx([c EXCEPT !.f.index = interface])
  IN IF c1.rc # 0 THEN Raise(c1, "FtdiError", "No such FTDI device found")
     ELSE LET c2 == open_from_device_configure(c1)
          IN IF Ok(c2) THEN [c2 EXCEPT !.ret = 0] ELSE c2

\* close without "self._handle = None"
close_keep_handle(c) ==
  IF c.f.handle = "unset" THEN Raise(c, "AttributeError", "_d2xx")
  ELSE IF c.f.handle = "open"
       THEN LET c1 == Call(c, "FT_Close", <<>>)
            IN [c1 EXCEPT !.d.opened = @ - 1]
  ELSE c

\* FT_Close releases the transport handle; its status is not looked at.
close(c) ==
  IF c.f.handle = "unset" THEN Raise(c, "AttributeError", "_d2xx")
  ELSE IF c.f.handle = "open"
       THEN LET c1 == Call(c, "FT_Close", <<>>)
            IN [c1 EXCEPT !.f.handle = "null", !.d.opened = @ - 1]
  ELSE c

-----------------------------------------------------------------------------
(* Bulk write                                                              *)

write_data_set_chunksize(c, chunksize) ==
  IF chunksize = 0
  THEN LET c1 == fifo_sizes(c)
       IN IF ~Ok(c1) THEN c1
          ELSE [c1 EXCEPT !.f.writebuffer_chunksize = c1.ret[1], !.ret = 0]
  ELSE [c EXCEPT !.f.writebuffer_chunksize = chunksize]

\* The byte counts FT_Write may report for a transfer of len bytes: all of
\* them, and on a transport that takes writes in part also fewer.
Accepted(d, len) ==
  {n \in 0..len : (d.partial /\ n <= MaxAccept) \/ n = len}

\* the bytes of an MPSSE command, op-code included; 0 for an op-code the
\* engine does not know
CommandLen(op) ==
  IF op \in {SET_BITS_LOW, SET_BITS_HIGH, SET_TCK_DIVISOR} THEN 3
  ELSE IF op \in {LOOPBACK_START, LOOPBACK_END, DISABLE_CLK_DIV5,
                  ENABLE_CLK_DIV5} THEN 1
  ELSE IF op \in {ENABLE_CLK_3PHASE, DISABLE_CLK_3PHASE, ENABLE_CLK_ADAPTIVE,
                  DISABLE_CLK_ADAPTIVE} THEN 1
  ELSE IF op = DRIVE_ZERO THEN 3
  ELSE 0

\* the op-codes only the high-speed chips know, DRIVE_ZERO only the FT232H
ChipKnows(d, op) ==
  /\ op \in {ENABLE_CLK_3PHASE, DISABLE_CLK_3PHASE, ENABLE_CLK_ADAPTIVE,
              DISABLE_CLK_ADAPTIVE} => d.devType \in {6, 7, 8}
  /\ op = DRIVE_ZERO => d.devType = 8

\* what the chip queues for the host on an op-code it does not know: a
\* sound chip answers BadCommand and the op-code, a faulty one may not
BadAnswer(d, op) ==
  CASE d.echo = "ok" -> <<BadCommand, op>>
    [] d.echo = "silent" -> <<>>
    [] d.echo = "short" -> <<BadCommand>>
    [] d.echo = "garbled" -> <<0, op>>
    [] d.echo = "misnamed" -> <<BadCommand, 0>>

\* The MPSSE engine runs the commands among the bytes it is given and keeps
\* the bytes of a command that is not complete yet.
RECURSIVE ChipRun(_, _)
ChipRun(d, bytes) ==
  IF bytes = <<>> THEN [d EXCEPT !.pending = <<>>]
  ELSE LET op == bytes[1]
           need == IF ChipKnows(d, op) THEN CommandLen(op) ELSE 0
       IN IF need = 0
          THEN ChipRun([d EXCEPT !.rx = @ \o BadAnswer(d, op)], Tail(bytes))
          ELSE IF Len(bytes) < need THEN [d EXCEPT !.pending = bytes]
          ELSE ChipRun([d EXCEPT !.loopback =
                                   IF op = LOOPBACK_START THEN TRUE
                                   ELSE IF op = LOOPBACK_END THEN FALSE
                                   ELSE @],
                       SubSeq(bytes, need + 1, Len(bytes)))

\* the chip takes bytes from the host: commands in MPSSE mode, otherwise
\* data for the line
ChipFeed(d, bytes) ==
  IF d.bitmode = "MPSSE" THEN ChipRun(d, d.pending \o bytes) ELSE d

\* FT_Write: the transport takes the first n bytes of the transfer.
_write(c, data) ==
  LET c1 == Call(c, "FT_Write", data)
  IN IF ~Ok(c1) THEN {c1}
     ELSE IF c1.rc # 0 THEN {Raise(c1, "FtdiError", "Write Failed")}
     ELSE {[c1 EXCEPT !.ret = n, !.sent = @ \o SubSeq(data, 1, n),
                      !.acks = Append(@, n),
                      !.d = ChipFeed(@, SubSeq(data, 1, n))] :
             n \in Accepted(c1.d, Len(data))}

RECURSIVE write_data_from(_, _, _)

\* write_data with "offset += write_size" for "offset += length"
write_data_from_whole_chunk(c, data, offset) ==
  IF ~(offset < Len(data)) THEN {[c EXCEPT !.ret = offset]}
  ELSE LET chunk == c.f.writebuffer_chunksize
           write_size == IF offset + chunk > Len(data)
                         THEN Len(data) - offset ELSE chunk
       IN UNION {IF ~Ok(c1) THEN {c1}
                 ELSE IF c1.ret <= 0
                      THEN {Raise(c1, "FtdiError", "Usb bulk write error")}
                 ELSE write_data_from(c1, data, offset + write_size) :
                   c1 \in _write(c, Slice(data, offset, offset + write_size))}

\* the loop of write_data, entered with the given offset
write_data_from(c, data, offset) ==
  IF ~(offset < Len(data)) THEN {[c EXCEPT !.ret = offset]}
  ELSE LET chunk == c.f.writebuffer_chunksize
           write_size == IF offset + chunk > Len(data)
                         THEN Len(data) - offset ELSE chunk
       IN UNION {IF ~Ok(c1) THEN {c1}
                 ELSE IF c1.ret <= 0
                      THEN {Raise(c1, "FtdiError", "Usb bulk write error")}
                 ELSE write_data_from(c1, data, offset + c1.ret) :
                   c1 \in _write(c, Slice(data, offset, offset + write_size))}

write_data(c, data) == write_data_from(c, data, 0)

-----------------------------------------------------------------------------
(* Dynamic latency                                                         *)

_adapt_latency(c0, payload_detected) ==
  LET c == [c0 EXCEPT !.reports = Append(@, payload_detected)]
  IN IF payload_detected
     THEN LET c1 == [c EXCEPT !.f.latency_count = 0]
          IN IF c1.f.latency # c1.f.latency_min
             THEN LET c2 == set_latency_timer(c1, c1.f.latency_min)
                  IN IF ~Ok(c2) THEN c2
                     ELSE [c2 EXCEPT !.f.latency = c2.f.latency_min]
             ELSE c1
     ELSE LET c1 == [c EXCEPT !.f.latency_count = @ + 1]
          IN IF c1.f.latency # c1.f.latency_max
                /\ c1.f.latency_count > c1.f.latency_threshold
             THEN LET doubled == c1.f.latency * 2
                      c2 == IF doubled > c1.f.latency_max
                            THEN [c1 EXCEPT !.f.latency = c1.f.latency_max]
                            ELSE [c1 EXCEPT !.f.latency = doubled,
                                            !.f.latency_count = 0]
                  IN set_latency_timer(c2, c2.f.latency)
             ELSE c1

\* set_dynamic_latency without "self._latency_threshold = None"
set_dynamic_latency_keep_threshold(c, lmin, lmax, threshold) ==
  IF threshold = 0
  THEN [c EXCEPT !.f.latency_count = 0]
  ELSE IF \E lat \in {lmin, lmax} : ~(LATENCY_MIN <= lat /\ lat <= LATENCY_MAX)
       THEN Raise(c, "ValueError", "Latency out of range")
  ELSE set_latency_timer([c EXCEPT !.f.latency_min = lmin,
                                   !.f.latency_max = lmax,
                                   !.f.latency_threshold = threshold,
                                   !.f.latency = lmin], lmin)

\* threshold 0 stands for None as well: the code only tests its truth
set_dynamic_latency(c, lmin, lmax, threshold) ==
  IF threshold = 0
  THEN [c EXCEPT !.f.latency_count = 0, !.f.latency_threshold = 0]
  ELSE IF \E lat \in {lmin, lmax} : ~(LATENCY_MIN <= lat /\ lat <= LATENCY_MAX)
       THEN Raise(c, "ValueError", "Latency out of range")
  ELSE set_latency_timer([c EXCEPT !.f.latency_min = lmin,
                                   !.f.latency_max = lmax,
                                   !.f.latency_threshold = threshold,
                                   !.f.latency = lmin], lmin)

-----------------------------------------------------------------------------
(* Bulk read                                                               *)

\* A framed transport lays a 2-byte status prologue at every
\* max-packet-size boundary of the packet that _read builds, so that the
\* raw bytes k = 1023, 1024, 2047, 2048, ... of an FT_Read are status bytes.
StatusSlot(k) == (k + 1) % MaxPacketSize \in {0, 1}

\* the status bytes among the first n raw bytes
Slots(n) == ((n + 1) \div MaxPacketSize) + (n \div MaxPacketSize)

\* the raw length that carries exactly p payload bytes
FramedLen(p) == IF p = 0 THEN 0 ELSE p + 2 * ((p - 1) \div (MaxPacketSize - 2))

\* the most raw bytes FT_Read can return when asked for size bytes; a framed
\* transport never cuts a status prologue in two
MostRead(d, size) ==
  IF d.framed
  THEN LET m == IF size - Slots(size) <= Len(d.rx)
                THEN size ELSE FramedLen(Len(d.rx))
       IN IF StatusSlot(m) /\ StatusSlot(m + 1) THEN m - 1 ELSE m
  ELSE Min(size, Len(d.rx))

\* The byte counts FT_Read may report: nothing, a few bytes, all there is,
\* and the counts around the max-packet-size boundary.
ReadCounts(d, size) ==
  LET most == MostRead(d, size)
  IN {n \in (0..ReadSlack) \cup {most}
            \cup {MaxPacketSize - 2 + k : k \in (0 - ReadSlack)..(ReadSlack + 2)} :
        /\ n <= most
        /\ d.framed => ~(StatusSlot(n) /\ StatusSlot(n + 1))}

\* a status byte of a prologue inside the data of a framed transport
StatusMark == -1

\* the n raw bytes FT_Read stores in the receive buffer
RawBytes(d, n) ==
  IF d.framed
  THEN [k \in 1..n |-> IF StatusSlot(k) THEN StatusMark ELSE d.rx[k - Slots(k)]]
  ELSE SubSeq(d.rx, 1, n)

\* FT_Read, then FT_GetModemStatus; the result is the two status bytes
\* followed by what of the raw bytes fits the receive buffer.
_read(c, size) ==
  IF c.nreads >= MaxReads THEN {}
  ELSE
  LET c1 == Call(c, "FT_Read", <<size>>)
  IN IF ~Ok(c1) THEN {c1}
     ELSE IF c1.rc # 0 THEN {Raise(c1, "FtdiError", "Unable to read")}
     ELSE
     {LET raw == RawBytes(c1.d, n)
          taken == n - (IF c1.d.framed THEN Slots(n) ELSE 0)
          c2 == Call([c1 EXCEPT !.d.rx = SubSeq(@, taken + 1, Len(@)),
                                !.nreads = @ + 1],
                     "FT_GetModemStatus", <<>>)
          data == <<modem % 256, (modem \div 256) % 256>>
                    \o SubSeq(raw, 1, Min(n, c2.f.readbuffer_chunksize))
      IN IF c2.rc # 0 THEN Raise(c2, "FtdiError", "Unable to read")
         ELSE [c2 EXCEPT !.ret = data, !.packets = Append(@, data)] :
        n \in ReadCounts(c1.d, size), modem \in c1.d.modems}

RECURSIVE Deinterleave(_, _, _, _)
RECURSIVE Deinterleave_keep_status(_, _, _, _)

\* Deinterleave with srcoff advanced by count instead of packet_size
Deinterleave_keep_status(tempbuf, srcoff, chunks, packet_size) ==
  IF chunks = 0 THEN <<>>
  ELSE Slice(tempbuf, srcoff, srcoff + packet_size - 2)
         \o Deinterleave_keep_status(tempbuf, srcoff + packet_size - 2,
                                     chunks - 1, packet_size)

\* lines 1889-1892: the payload of every packet_size chunk of tempbuf
Deinterleave(tempbuf, srcoff, chunks, packet_size) ==
  IF chunks = 0 THEN <<>>
  ELSE Slice(tempbuf, srcoff, srcoff + packet_size - 2)
         \o Deinterleave(tempbuf, srcoff + packet_size, chunks - 1, packet_size)

\* what request_gen answers: nothing, or one command byte
RequestGen(gen, req_size) == IF gen = "command" THEN <<129>> ELSE <<>>

\* lines 1864-1871: the continuation request; v.req_size is updated
ReadRequest(c, v, tempbuf) ==
  LET length == Len(tempbuf)
  IN IF length >= 2 /\ BitAnd(tempbuf[2], TX_EMPTY_BITS) # 0 /\ v.gen # "none"
     THEN LET req_size == v.req_size - (length - 2)
              v1 == [v EXCEPT !.req_size = req_size]
          IN IF req_size > 0
             THEN LET c1 == [c EXCEPT !.requests = Append(@, req_size)]
                      cmd == RequestGen(v.gen, req_size)
                  IN IF cmd # <<>>
                     THEN {<<c2, v1>> : c2 \in write_data(c1, cmd)}
                     ELSE {<<c1, v1>>}
             ELSE {<<c, v1>>}
     ELSE {<<c, v>>}

\* lines 1872-1893: a packet with payload refills the cache
ReadRefill(c, v, tempbuf) ==
  LET c1 == IF c.f.latency_threshold # 0 THEN _adapt_latency(c, TRUE) ELSE c
  IN IF ~Ok(c1) THEN c1
     ELSE LET packet_size == c1.f.max_packet_size
              chunks == (Len(tempbuf) + packet_size - 1) \div packet_size
          IN [c1 EXCEPT !.f.readbuffer =
                          Deinterleave(tempbuf, 2, chunks, packet_size),
                        !.f.readoffset = 0]

\* ReadGiveUp without the report to _adapt_latency
ReadGiveUp_no_report(c, v) ==
  LET c1 == [c EXCEPT !.f.readbuffer = <<>>, !.f.readoffset = 0]
  IN [c1 EXCEPT !.ret = v.data]

\* lines 1896-1906: no payload, and no attempt left
ReadGiveUp(c, v) ==
  LET c1 == [c EXCEPT !.f.readbuffer = <<>>, !.f.readoffset = 0]
      c2 == IF c1.f.latency_threshold # 0 THEN _adapt_latency(c1, FALSE) ELSE c1
  IN IF ~Ok(c2) THEN c2 ELSE [c2 EXCEPT !.ret = v.data]

RECURSIVE ReadLoop(_, _)
RECURSIVE ReadAttempt(_, _)

\* ReadDeliver without the return at "len(data) == size"
ReadDeliver_no_return(c, v) ==
  LET length == Len(c.f.readbuffer)
      off == c.f.readoffset
  IN IF length > 0
     THEN IF Len(v.data) + length <= v.size
          THEN LET data == v.data \o Slice(c.f.readbuffer, off, off + length)
                   c1 == [c EXCEPT !.f.readoffset = off + length]
               IN ReadLoop(c1, [v EXCEPT !.data = data, !.length = length])
          ELSE LET part_size == Min(v.size - Len(v.data), length - off)
               IN IF part_size < 0
                  THEN {Raise(c, "FtdiError", "Internal Error")}
                  ELSE {[c EXCEPT !.f.readoffset = off + part_size,
                                  !.ret = v.data \o
                                    Slice(c.f.readbuffer, off, off + part_size)]}
     ELSE ReadLoop(c, [v EXCEPT !.length = length])

\* lines 1907-1926: move what the cache now holds into data
ReadDeliver(c, v) ==
  LET length == Len(c.f.readbuffer)
      off == c.f.readoffset
  IN IF length > 0
     THEN IF Len(v.data) + length <= v.size
          THEN LET data == v.data \o Slice(c.f.readbuffer, off, off + length)
                   c1 == [c EXCEPT !.f.readoffset = off + length]
               IN IF Len(data) = v.size
                  THEN {[c1 EXCEPT !.ret = data]}
                  ELSE ReadLoop(c1, [v EXCEPT !.data = data, !.length = length])
          ELSE LET part_size == Min(v.size - Len(v.data), length - off)
               IN IF part_size < 0
                  THEN {Raise(c, "FtdiError", "Internal Error")}
                  ELSE {[c EXCEPT !.f.readoffset = off + part_size,
                                  !.ret = v.data \o
                                    Slice(c.f.readbuffer, off, off + part_size)]}
     ELSE ReadLoop(c, [v EXCEPT !.length = length])

RECURSIVE ReadAttempt_retry_once_more(_, _)

\* ReadAttempt with "retry >= 0" for "retry > 0"
ReadAttempt_retry_once_more(c, v) ==
  UNION {
    IF ~Ok(c1) THEN {c1}
    ELSE LET tempbuf == c1.ret
         IN UNION {
              LET c2 == cv[1]
                  v2 == [cv[2] EXCEPT !.retry = v.retry - 1]
              IN IF ~Ok(c2) THEN {c2}
                 ELSE IF Len(tempbuf) > 2
                      THEN UNION {IF ~Ok(c3) THEN {c3}
                                  ELSE ReadDeliver(c3, [v2 EXCEPT !.retry = v.attempt]) :
                                    c3 \in {ReadRefill(c2, v2, tempbuf)}}
                 ELSE IF v2.retry >= 0 THEN ReadAttempt_retry_once_more(c2, v2)
                 ELSE {ReadGiveUp(c2, v2)} :
              cv \in ReadRequest(c1, v, tempbuf)} :
    c1 \in _read(c, v.size - Len(v.data))}

\* lines 1857-1906: one _read of the inner loop
ReadAttempt(c, v) ==
  UNION {
    IF ~Ok(c1) THEN {c1}
    ELSE LET tempbuf == c1.ret
         IN UNION {
              LET c2 == cv[1]
                  v2 == [cv[2] EXCEPT !.retry = v.retry - 1]
              IN IF ~Ok(c2) THEN {c2}
                 ELSE IF Len(tempbuf) > 2
                      THEN UNION {IF ~Ok(c3) THEN {c3}
                                  ELSE ReadDeliver(c3, [v2 EXCEPT !.retry = v.attempt]) :
                                    c3 \in {ReadRefill(c2, v2, tempbuf)}}
                 ELSE IF v2.retry > 0 THEN ReadAttempt(c2, v2)
                 ELSE {ReadGiveUp(c2, v2)} :
              cv \in ReadRequest(c1, v, tempbuf)} :
    c1 \in _read(c, v.size - Len(v.data))}

\* line 1856: the outer loop
ReadLoop(c, v) ==
  UNION {IF Len(v0.data) < v0.size /\ v0.length > 0
         THEN ReadAttempt(c0, v0)
         ELSE {Raise(c0, "FtdiError", "Internal error")} :
           c0 \in {c}, v0 \in {v}}

\* read_data_bytes with the loop run for one byte more than was asked
read_data_bytes_one_more(c, size, attempt, request_gen) ==
  IF c.f.max_packet_size = 0
  THEN {Raise(c, "FtdiError", "max_packet_size is bogus")}
  ELSE LET cached == Len(c.f.readbuffer) - c.f.readoffset
       IN IF size <= cached
          THEN {[c EXCEPT !.ret = Slice(c.f.readbuffer, c.f.readoffset,
                                        c.f.readoffset + size),
                          !.f.readoffset = @ + size]}
          ELSE LET data == IF cached # 0
                           THEN Slice(c.f.readbuffer, c.f.readoffset,
                                      Len(c.f.readbuffer))
                           ELSE <<>>
                   c1 == IF cached # 0
                         THEN [c EXCEPT !.f.readoffset = Len(c.f.readbuffer)]
                         ELSE c
               IN ReadLoop(c1, [size |-> size + 1, attempt |-> attempt,
                                gen |-> request_gen, data |-> data,
                                length |-> 1, retry |-> attempt,
                                req_size |-> size])

\* lines 1837-1853: the sanity check, the cache, then the transport
read_data_bytes(c, size, attempt, request_gen) ==
  IF c.f.max_packet_size = 0
  THEN {Raise(c, "FtdiError", "max_packet_size is bogus")}
  ELSE LET cached == Len(c.f.readbuffer) - c.f.readoffset
       IN IF size <= cached
          THEN {[c EXCEPT !.ret = Slice(c.f.readbuffer, c.f.readoffset,
                                        c.f.readoffset + size),
                          !.f.readoffset = @ + size]}
          ELSE LET data == IF cached # 0
                           THEN Slice(c.f.readbuffer, c.f.readoffset,
                                      Len(c.f.readbuffer))
                           ELSE <<>>
                   c1 == IF cached # 0
                         THEN [c EXCEPT !.f.readoffset = Len(c.f.readbuffer)]
                         ELSE c
               IN ReadLoop(c1, [size |-> size, attempt |-> attempt,
                                gen |-> request_gen, data |-> data,
                                length |-> 1, retry |-> attempt,
                                req_size |-> size])

read_data(c, size) == read_data_bytes(c, size, 1, "none")

-----------------------------------------------------------------------------
(* MPSSE                                                                   *)

read_data_set_chunksize(c, chunksize) ==
  LET c0 == [c EXCEPT !.f.readoffset = 0, !.f.readbuffer = <<>>]
  IN IF chunksize = 0
     THEN LET c1 == fifo_sizes(c0)
          IN IF ~Ok(c1) THEN c1
             ELSE [c1 EXCEPT !.f.readbuffer_chunksize =
                               Min(Min(c1.ret[1], c1.ret[2]), c1.f.max_packet_size),
                             !.ret = 0]
     ELSE [c0 EXCEPT !.f.readbuffer_chunksize = chunksize]

set_flowctrl(c, flowctrl) ==
  IF flowctrl \notin {"hw", ""}
  THEN Raise(c, "ValueError", "Unknown flow control")
  ELSE LET c1 == Call(c, "FT_SetFlowControl", <<flowctrl>>)
       IN IF ~Ok(c1) THEN c1
          ELSE IF c1.rc # 0 THEN Raise(c1, "FtdiError", "Unable to set flow control")
          ELSE c1

set_event_char(c, eventch, enable) ==
  LET c1 == Call(c, "FT_SetChars", <<"event", eventch, enable>>)
  IN IF ~Ok(c1) THEN c1
     ELSE IF c1.rc # 0 THEN Raise(c1, "FtdiError", "Unable to set event char")
     ELSE c1

set_error_char(c, errorch, enable) ==
  LET c1 == Call(c, "FT_SetChars", <<"error", errorch, enable>>)
  IN IF ~Ok(c1) THEN c1
     ELSE IF c1.rc # 0 THEN Raise(c1, "FtdiError", "Unable to set error char")
     ELSE c1

\* S, each context that has not raised continued by F
Then(S, F(_)) == UNION {IF Ok(c) THEN F(c) ELSE {c} : c \in S}

\* the same for one outcome: the step F runs on c unless c has raised
ThenOne(c, F(_)) == CHOOSE r \in {IF Ok(v) THEN F(v) ELSE v : v \in {c}} : TRUE

\* line 2026: bytes_[0] is an int and '\xfa' a str of one character; Python
\* finds an int and a str unequal whatever their values
IntEqualsStr(byte, char) == FALSE

validate_mpsse(c) ==
  LET c1 == Call(c, "FT_GetQueueStatus", <<>>)
  IN IF ~Ok(c1) THEN {c1}
     ELSE IF c1.rc # 0
          THEN {Raise(c1, "FtdiError", "Unable to check MPSSE response")}
     ELSE IF Len(c1.d.rx) > 0
          THEN {LET bytes_ == c2.ret
                    c3 == [c2 EXCEPT !.bytes_ = Append(@, bytes_), !.ret = 0]
                IN IF ~Ok(c2) THEN c2
                   ELSE IF Len(bytes_) >= 2 /\ IntEqualsStr(bytes_[1], "\\xfa")
                        THEN Raise(c3, "FtdiError", "Invalid command")
                   ELSE c3 :
                  c2 \in read_data(c1, 2)}
     ELSE {c1}

frequency_max(c) == IF is_H_series(c) THEN BUS_CLOCK_HIGH ELSE BUS_CLOCK_BASE

\* Divisor with the quotient cut off and not rounded
Divisor_truncated(clock, frequency) == Max(0, Min(65535, (clock \div frequency) - 1))

\* int((clock + frequency/2)/frequency) - 1, kept within 0..0xFFFF
Divisor(clock, frequency) ==
  Max(0, Min(65535, ((2 * clock + frequency) \div (2 * frequency)) - 1))

Abs(x) == IF x < 0 THEN 0 - x ELSE x

\* x / a < y / b for x, y >= 0 and a, b > 0, by whole parts and then by
\* the reciprocals of the fractional parts, so that no product is formed
RECURSIVE RatLess(_, _, _, _)
RatLess(x, a, y, b) ==
  IF x \div a # y \div b THEN x \div a < y \div b
  ELSE IF y % b = 0 THEN FALSE
  ELSE IF x % a = 0 THEN TRUE
  ELSE RatLess(b, y % b, a, x % a)

\* lines 2272-2295: the divider command; the errors clock/(divisor+1)/f - 1
\* of the two clocks are compared as |clock - f * (divisor+1)| / (divisor+1),
\* which is f times their magnitude
FrequencyCommand(c, frequency) ==
  LET divisor == Divisor(BUS_CLOCK_BASE, frequency)
      divisor_hs == Divisor(BUS_CLOCK_HIGH, frequency)
      closer_hs ==
        RatLess(Abs(BUS_CLOCK_HIGH - frequency * (divisor_hs + 1)), divisor_hs + 1,
                Abs(BUS_CLOCK_BASE - frequency * (divisor + 1)), divisor + 1)
      hs == is_H_series(c) /\ closer_hs
      div == IF hs THEN divisor_hs ELSE divisor
      divcode == IF hs THEN DISABLE_CLK_DIV5 ELSE ENABLE_CLK_DIV5
  IN [cmd |-> (IF is_H_series(c) THEN <<divcode>> ELSE <<>>)
                \o <<SET_TCK_DIVISOR, div % 256, (div \div 256) % 256>>,
      actual_freq |-> <<IF hs THEN BUS_CLOCK_HIGH ELSE BUS_CLOCK_BASE, div + 1>>]

\* the result is the frequency as the pair (clock, divisor + 1) it is the
\* quotient of
_set_frequency(c, frequency) ==
  IF ~is_mpsse(c)
  THEN {Raise(c, "FtdiFeatureError", "Cannot change frequency w/ current mode")}
  ELSE IF frequency > frequency_max(c)
       THEN {Raise(c, "FtdiFeatureError", "Unsupported frequency")}
  ELSE LET fc == FrequencyCommand(c, frequency)
           Purge(c3) == LET c4 == purge_rx_buffer(c3)
                        IN {IF Ok(c4) THEN [c4 EXCEPT !.ret = fc.actual_freq] ELSE c4}
       IN Then(Then(write_data(c, fc.cmd), validate_mpsse), Purge)

set_frequency(c, frequency) == _set_frequency(c, frequency)

enable_loopback_mode(c, loopback) ==
  write_data(c, <<IF loopback THEN LOOPBACK_START ELSE LOOPBACK_END>>)

\* lines 794-809: from the latency timer to the MPSSE bit-mode
open_mpsse_configure(c, direction, latency) ==
  Bind(set_latency_timer(c, latency), LAMBDA c1 :
  IF ~Ok(c1) THEN c1 ELSE
  Bind(write_data_set_chunksize(c1, 0), LAMBDA c2 :
  IF ~Ok(c2) THEN c2 ELSE
  Bind(read_data_set_chunksize(c2, 0), LAMBDA c3 :
  IF ~Ok(c3) THEN c3 ELSE
  Bind(set_flowctrl(c3, "hw"), LAMBDA c4 :
  IF ~Ok(c4) THEN c4 ELSE
  Bind(set_bitmode(c4, 0, "RESET"), LAMBDA c5 :
  IF ~Ok(c5) THEN c5 ELSE
  Bind(purge_buffers(c5), LAMBDA c6 :
  IF ~Ok(c6) THEN c6 ELSE
  Bind(set_event_char(c6, 0, FALSE), LAMBDA c7 :
  IF ~Ok(c7) THEN c7 ELSE
  Bind(set_error_char(c7, 0, FALSE), LAMBDA c8 :
  IF ~Ok(c8) THEN c8 ELSE
     set_bitmode(c8, direction, "MPSSE")))))))))

\* lines 822-828: the GPIO command
GpioCommand(c, initial, direction) ==
  <<SET_BITS_LOW, initial % 256, direction % 256>>
    \o (IF has_wide_port(c)
        THEN <<SET_BITS_HIGH, (initial \div 256) % 256, (direction \div 256) % 256>>
        ELSE <<>>)

\* open_mpsse_synchronize with the self-test answer compared to its first
\* byte only
open_mpsse_synchronize_first_byte(c, direction, initial, frequency) ==
  LET SelfTest(c1) ==
        {LET resp == c2.ret
             c3 == [c2 EXCEPT !.resp = Append(@, resp)]
         IN IF ~Ok(c2) THEN c2
            ELSE IF Len(resp) < 2 \/ resp[1] # BadCommand
                 THEN Raise(c3, "FtdiMpsseError", "Unable to synchronize MPSSE")
            ELSE c3 :
           c2 \in read_data(c1, 2)}
      Bogus(c1) == write_data(c1, <<BogusOpcode>>)
      LoopOn(c1) == enable_loopback_mode(c1, TRUE)
      LoopOff(c1) == enable_loopback_mode(c1, FALSE)
      Gpio(c1) == write_data(c1, GpioCommand(c1, initial, direction))
      Done(c1) == {[c1 EXCEPT !.ret = frequency]}
  IN Then(Then(Then(Then(Then(Then(LoopOn(c), Bogus), SelfTest), LoopOff),
                    Gpio), validate_mpsse), Done)

\* open_mpsse_synchronize with the GPIO command sent before loopback is
\* disabled
open_mpsse_synchronize_gpio_first(c, direction, initial, frequency) ==
  LET SelfTest(c1) ==
        {LET resp == c2.ret
             c3 == [c2 EXCEPT !.resp = Append(@, resp)]
         IN IF ~Ok(c2) THEN c2
            ELSE IF Len(resp) < 2 \/ resp[1] # BadCommand \/ resp[2] # BogusOpcode
                 THEN Raise(c3, "FtdiMpsseError", "Unable to synchronize MPSSE")
            ELSE c3 :
           c2 \in read_data(c1, 2)}
      Bogus(c1) == write_data(c1, <<BogusOpcode>>)
      LoopOn(c1) == enable_loopback_mode(c1, TRUE)
      LoopOff(c1) == enable_loopback_mode(c1, FALSE)
      Gpio(c1) == write_data(c1, GpioCommand(c1, initial, direction))
      Done(c1) == {[c1 EXCEPT !.ret = frequency]}
  IN Then(Then(Then(Then(Then(Then(LoopOn(c), Bogus), SelfTest), Gpio),
                    LoopOff), validate_mpsse), Done)

\* lines 812-829: the self-test, then the GPIO command
open_mpsse_synchronize(c, direction, initial, frequency) ==
  LET SelfTest(c1) ==
        {LET resp == c2.ret
             c3 == [c2 EXCEPT !.resp = Append(@, resp)]
         IN IF ~Ok(c2) THEN c2
            ELSE IF Len(resp) < 2 \/ resp[1] # BadCommand \/ resp[2] # BogusOpcode
                 THEN Raise(c3, "FtdiMpsseError", "Unable to synchronize MPSSE")
            ELSE c3 :
           c2 \in read_data(c1, 2)}
      Bogus(c1) == write_data(c1, <<BogusOpcode>>)
      LoopOn(c1) == enable_loopback_mode(c1, TRUE)
      LoopOff(c1) == enable_loopback_mode(c1, FALSE)
      Gpio(c1) == write_data(c1, GpioCommand(c1, initial, direction))
      Done(c1) == {[c1 EXCEPT !.ret = frequency]}
  IN Then(Then(Then(Then(Then(Then(LoopOn(c), Bogus), SelfTest), LoopOff),
                    Gpio), validate_mpsse), Done)

\* open_mpsse_from_device without the interface check
open_mpsse_from_device_any_interface(c, interface, direction, initial, frequency, latency) ==
  LET Sync(c3) == LET actual == c3.ret
                  IN open_mpsse_synchronize(c3, direction, initial, actual)
      Clock(c2) == Then(_set_frequency(c2, frequency), Sync)
      Configure(c1) ==
        Then({open_mpsse_configure(c1, direction, latency)}, Clock)
  IN Then({open_from_device(c, interface)}, Configure)

open_mpsse_from_device(c, interface, direction, initial, frequency, latency) ==
  LET Sync(c3) == LET actual == c3.ret
                  IN open_mpsse_synchronize(c3, direction, initial, actual)
      Clock(c2) == Then(_set_frequency(c2, frequency), Sync)
      Configure(c1) ==
        IF ~is_mpsse_interface(c1, interface)
        THEN {Raise(close(c1), "FtdiMpsseError",
                    "This interface does not support MPSSE")}
        ELSE Then({open_mpsse_configure(c1, direction, latency)}, Clock)
  IN Then({open_from_device(c, interface)}, Configure)

-----------------------------------------------------------------------------
(* Clock and drive modes of the MPSSE engine                               *)

\* c.ret is the answer
has_drivezero(c) ==
  IF ~is_connected(c)
  THEN Raise(c, "FtdiError", "Device characteristics not yet known")
  ELSE LET c1 == device_version(c)
       IN IF ~Ok(c1) THEN c1 ELSE [c1 EXCEPT !.ret = (c1.ret = FT232H)]

enable_adaptive_clock(c, enable) ==
  IF ~is_mpsse(c)
  THEN {Raise(c, "FtdiMpsseError", "Setting adaptive clock mode")}
  ELSE write_data(c, <<IF enable THEN ENABLE_CLK_ADAPTIVE
                       ELSE DISABLE_CLK_ADAPTIVE>>)

\* enable_3phase_clock with the test of the chip series left out
enable_3phase_clock_any_chip(c, enable) ==
  IF ~is_mpsse(c)
  THEN {Raise(c, "FtdiMpsseError", "Setting 3-phase clock mode")}
  ELSE write_data(c, <<IF enable THEN ENABLE_CLK_3PHASE
                       ELSE DISABLE_CLK_3PHASE>>)

\* the property is_H_series raises on a session that is not connected
enable_3phase_clock(c, enable) ==
  IF ~is_mpsse(c)
  THEN {Raise(c, "FtdiMpsseError", "Setting 3-phase clock mode")}
  ELSE IF ~is_connected(c)
       THEN {Raise(c, "FtdiError", "Device characteristics not yet known")}
  ELSE IF ~is_H_series(c)
       THEN {Raise(c, "FtdiFeatureError", "This device does not support 3-phase clock")}
  ELSE write_data(c, <<IF enable THEN ENABLE_CLK_3PHASE
                       ELSE DISABLE_CLK_3PHASE>>)

enable_drivezero_mode(c, lines) ==
  IF ~is_mpsse(c)
  THEN {Raise(c, "FtdiMpsseError", "Setting drive-zero mode")}
  ELSE LET c1 == has_drivezero(c)
       IN IF ~Ok(c1) THEN {c1}
          ELSE IF ~c1.ret
               THEN {Raise([c1 EXCEPT !.ret = 0], "FtdiFeatureError",
                           "This device does not support drive-zero mode")}
          ELSE write_data([c1 EXCEPT !.ret = 0],
                          <<DRIVE_ZERO, lines % 256, (lines \div 256) % 256>>)

-----------------------------------------------------------------------------
(* Baud rate                                                               *)

\* int(round(num / den)) for positive integers: Python rounds a half to the
\* even neighbour
RoundDiv(num, den) ==
  LET q == num \div den
      r == num % den
  IN IF 2 * r < den THEN q
     ELSE IF 2 * r > den THEN q + 1
     ELSE IF q % 2 = 0 THEN q ELSE q + 1

is_bitbang_enabled(c) == c.f.bitmode \notin {"RESET", "MPSSE", "CBUS"}

\* lines 2190-2200: the legacy divisor of the rounded 8x divisor div8a
LegacyDivisor(div8a) ==
  LET div0 == div8a \div 8
      div8 == div8a % 8
  IN IF div8 = 1 THEN BitOr(div0, 49152)
     ELSE IF div8 >= 4 THEN BitOr(div0, 16384)
     ELSE IF div8 # 0 THEN BitOr(div0, 32768)
     ELSE IF div0 = 1 THEN 0
     ELSE div0

\* lines 2188-2190: div8 rounded, and stepped up when its low bits are 7
LegacyDiv8(baudrate) ==
  LET rounded == RoundDiv(8 * BAUDRATE_REF_BASE, baudrate)
  IN IF rounded % 8 = 7 THEN rounded + 1 ELSE rounded

\* c.ret is <<estimate, value, index>>.  The estimate divides by div8 after
\* it has been cut to its low three bits.
_convert_baudrate_legacy(c, baudrate) ==
  IF baudrate > BAUDRATE_REF_BASE
  THEN Raise(c, "ValueError", "Invalid baudrate (too high)")
  ELSE IF baudrate = 0 THEN Raise(c, "ZeroDivisionError", "division by zero")
  ELSE IF LegacyDiv8(baudrate) % 8 = 0
       THEN Raise(c, "ZeroDivisionError", "integer division or modulo by zero")
  ELSE [c EXCEPT !.ret =
          <<((8 * BAUDRATE_REF_BASE) + ((LegacyDiv8(baudrate) % 8) \div 2))
               \div (LegacyDiv8(baudrate) % 8),
            LegacyDivisor(LegacyDiv8(baudrate)) % 65536,
            (LegacyDivisor(LegacyDiv8(baudrate)) \div 65536) % 65536>>]

\* lines 2231-2238: the divisor of the 8x divisor div8
Divisor8(div8, hispeed) ==
  LET div0 == BitOr(div8 \div 8, FRAC_DIV_CODE[(div8 % 8) + 1] * 16384)
      div1 == IF div0 = 1 THEN 0 ELSE IF div0 = 16385 THEN 1 ELSE div0
  IN IF hispeed THEN BitOr(div1, 131072) ELSE div1

\* lines 2228-2247, for the 8x divisor div8 of the rate; c.ret is
\* <<estimate, value, index>>
ConvertDiv8(c, div8, hispeed, clock, bb_ratio) ==
  [c EXCEPT !.ret =
     <<(((8 * clock) + (div8 \div 2)) \div div8)
         * (IF is_bitbang_enabled(c) THEN bb_ratio ELSE 1),
       Divisor8(div8, hispeed) % 65536,
       IF has_mpsse(c)
       THEN BitOr(((Divisor8(div8, hispeed) \div 65536) % 65536) * 256, c.f.index)
       ELSE (Divisor8(div8, hispeed) \div 65536) % 65536>>]

\* lines 2216-2230, with the reference clock chosen
ConvertWithClock(c, baudrate, hispeed, clock, bb_ratio) ==
  IF baudrate > clock
  THEN Raise(c, "ValueError", "Invalid baudrate (too high)")
  ELSE IF baudrate < (clock \div 16384) + 1
       THEN Raise(c, "ValueError", "Invalid baudrate (too low)")
  ELSE ConvertDiv8(c,
                   RoundDiv(8 * clock,
                            IF is_bitbang_enabled(c) THEN baudrate \div bb_ratio
                            ELSE baudrate),
                   hispeed, clock, bb_ratio)

\* _convert_baudrate taking every chip for the oldest generation
_convert_baudrate_always_legacy(c, baudrate) ==
  LET c1 == device_version(c)
  IN IF ~Ok(c1) THEN c1 ELSE _convert_baudrate_legacy(c1, baudrate)

_convert_baudrate(c, baudrate) ==
  LET c1 == device_version(c)
  IN IF ~Ok(c1) THEN c1
     ELSE IF c1.ret = FT232AM THEN _convert_baudrate_legacy(c1, baudrate)
     ELSE IF is_H_series(c1) /\ baudrate >= 1200
          THEN ConvertWithClock(c1, baudrate, TRUE, BAUDRATE_REF_HIGH,
                                BITBANG_BAUDRATE_RATIO_HIGH)
     ELSE ConvertWithClock(c1, baudrate, FALSE, BAUDRATE_REF_BASE,
                           BITBANG_BAUDRATE_RATIO_BASE)

\* delta > BAUDRATE_TOLERANCE, with delta = 100 * abs(actual - baudrate) /
\* baudrate: for integers, 100 * d > 3 * b exactly when d > (3 * b) div 100
ToleranceExceeded(actual, baudrate) ==
  (IF actual < baudrate THEN baudrate - actual ELSE actual - baudrate)
    > (BAUDRATE_TOLERANCE * baudrate) \div 100

\* _set_baudrate with the tolerance test left out
_set_baudrate_no_tolerance(c, baudrate, constrain) ==
  IF is_mpsse(c)
  THEN Raise(c, "FtdiFeatureError", "Cannot change frequency w/ current mode")
  ELSE LET c1 == _convert_baudrate(c, baudrate)
       IN IF ~Ok(c1) THEN c1
          ELSE LET actual == c1.ret[1]
                   c2 == Call(c1, "FT_SetBaudRate", <<actual>>)
               IN IF ~Ok(c2) THEN c2
                  ELSE IF c2.rc # 0
                       THEN Raise(c2, "FtdiError", "Unable to set baudrate")
                  ELSE [c2 EXCEPT !.ret = actual, !.d.baudrate = actual]

_set_baudrate(c, baudrate, constrain) ==
  IF is_mpsse(c)
  THEN Raise(c, "FtdiFeatureError", "Cannot change frequency w/ current mode")
  ELSE LET c1 == _convert_baudrate(c, baudrate)
       IN IF ~Ok(c1) THEN c1
          ELSE LET actual == c1.ret[1]
               IN IF constrain /\ ToleranceExceeded(actual, baudrate)
                  THEN Raise(c1, "ValueError", "Baudrate tolerance exceeded")
                  ELSE LET c2 == Call(c1, "FT_SetBaudRate", <<actual>>)
                       IN IF ~Ok(c2) THEN c2
                          ELSE IF c2.rc # 0
                               THEN Raise(c2, "FtdiError", "Unable to set baudrate")
                          ELSE [c2 EXCEPT !.ret = actual, !.d.baudrate = actual]

set_baudrate(c, baudrate, constrain) ==
  LET c1 == _set_baudrate(c, baudrate, constrain)
  IN IF ~Ok(c1) THEN c1 ELSE [c1 EXCEPT !.f.baudrate = c1.ret]

\* lines 909-918: from the latency timer to the bitbang bit-mode
open_bitbang_configure(c, direction, latency, sync) ==
  LET SetLatency(c0) == set_latency_timer(c0, latency)
      WriteChunk(c1) == write_data_set_chunksize(c1, 0)
      ReadChunk(c2) == read_data_set_chunksize(c2, 0)
      FlowCtrl(c3) == set_flowctrl(c3, "")
      BitMode(c4) ==
        set_bitmode(c4, direction, IF sync THEN "SYNCBB" ELSE "BITBANG")
  IN ThenOne(ThenOne(ThenOne(ThenOne(ThenOne(c, SetLatency), WriteChunk),
                             ReadChunk), FlowCtrl), BitMode)

\* lines 920-925: the clock, the purge and the result
open_bitbang_finish(c, baudrate) ==
  LET Baudrate(c0) ==
        IF baudrate # 0 THEN set_baudrate(c0, baudrate, FALSE) ELSE c0
      Purge(c1) == purge_buffers(c1)
      Result(c2) == [c2 EXCEPT !.ret = c2.f.baudrate]
  IN ThenOne(ThenOne(ThenOne(c, Baudrate), Purge), Result)

open_bitbang_from_device(c, interface, direction, latency, baudrate, sync) ==
  LET Configure(c1) == open_bitbang_configure(c1, direction, latency, sync)
      Finish(c2) == open_bitbang_finish(c2, baudrate)
  IN ThenOne(ThenOne(open_from_device(c, interface), Configure), Finish)

-----------------------------------------------------------------------------
(* EEPROM                                                                  *)

EXT_EEPROM_SIZES == <<128, 256>>

INT_EEPROMS == (FT232R :> 128) @@ (FT230X :> 1024)

\* eeprom_size -1 stands for None; c.ret is the resolved size.  On a chip
\* with an internal EEPROM the hint is tested for truth first, so that 0 passes
\* as None does.
_check_eeprom_size(c, eeprom_size) ==
  LET c1 == device_version(c)
  IN IF ~Ok(c1) THEN c1
     ELSE IF c1.ret \in DOMAIN INT_EEPROMS
          THEN IF eeprom_size \notin {-1, 0} /\ eeprom_size # INT_EEPROMS[c1.ret]
               THEN Raise(c1, "ValueError", "Invalid EEPROM size")
               ELSE [c1 EXCEPT !.ret = INT_EEPROMS[c1.ret]]
     ELSE LET size == IF eeprom_size = -1
                      THEN EXT_EEPROM_SIZES[Len(EXT_EEPROM_SIZES)]
                      ELSE eeprom_size
          IN IF \A i \in DOMAIN EXT_EEPROM_SIZES : EXT_EEPROM_SIZES[i] # size
             THEN Raise(c1, "ValueError", "Invalid EEPROM size")
             ELSE [c1 EXCEPT !.ret = size]

\* lines 1654-1660: the loop over the 16-bit little-endian words of data,
\* here for the words lo..hi-1 (the word at byte idx = 2 * word), starting
\* from checksum.  The loop over lo..hi-1 is the loop over lo..mid-1 followed
\* by the loop over mid..hi-1, which keeps the evaluation shallow.
RECURSIVE ChecksumFrom(_, _, _, _, _)
ChecksumFrom(data, lo, hi, checksum, mtp) ==
  IF hi <= lo THEN checksum
  ELSE IF hi = lo + 1
       THEN LET idx == 2 * lo
            IN IF mtp /\ 36 <= idx /\ idx < 128 THEN checksum
               ELSE LET val == (data[idx + 2] * 256 + data[idx + 1]) % 65536
                        mixed == BitXor(val, checksum)
                    IN ((mixed * 2) % 65536) + ((mixed \div 32768) % 65536)
  ELSE LET mid == (lo + hi) \div 2
           first == ChecksumFrom(data, lo, mid, checksum, mtp)
       IN IF first >= 0 THEN ChecksumFrom(data, mid, hi, first, mtp) ELSE first

\* Checksum with the MTP user section never skipped
Checksum_no_skip(data, mtp) == ChecksumFrom(data, 0, Len(data) \div 2, 43690, FALSE)

\* the checksum of data, an even number of bytes, from the seed 0xAAAA
Checksum(data, mtp) == ChecksumFrom(data, 0, Len(data) \div 2, 43690, mtp)

calc_eeprom_checksum(c, data) ==
  IF Len(data) = 0 THEN Raise(c, "ValueError", "No data to checksum")
  ELSE IF Len(data) % 2 = 1 THEN Raise(c, "ValueError", "Length not even")
  ELSE LET c1 == device_version(c)
       IN IF ~Ok(c1) THEN c1
          ELSE [c1 EXCEPT !.ret = Checksum(data, c1.ret = FT230X)]

\* lines 1683-1691: the word loop.  FT_ReadEE fills a c_uint16, and
\* bytearray.extend is handed its value, an int: Python raises TypeError
\* ("can't extend bytearray with int"), so no word is ever appended and the
\* loop never reaches its second round.
ReadWords(c, word_addr, word_count) ==
  IF word_count = 0 THEN [c EXCEPT !.ret = <<>>]
  ELSE LET c1 == Call(c, "FT_ReadEE", <<word_addr>>)
       IN IF ~Ok(c1) THEN c1
          ELSE IF c1.rc # 0 THEN Raise(c1, "FtdiEepromError", "EEPROM read error")
          ELSE Raise(c1, "TypeError", "can't extend bytearray with int")

\* length -1 and eeprom_size -1 stand for None
read_eeprom(c, addr, length0, eeprom_size) ==
  LET c1 == _check_eeprom_size(c, eeprom_size)
  IN IF ~Ok(c1) THEN c1
     ELSE LET size == c1.ret
              length == IF length0 = -1 THEN size ELSE length0
          IN IF addr < 0 \/ addr + length > size
             THEN Raise(c1, "ValueError", "Invalid address/length")
             ELSE LET word_count == (length \div 2)
                        + (IF addr % 2 = 1 \/ length % 2 = 1 THEN 1 ELSE 0)
                      c2 == ReadWords(c1, addr \div 2, word_count)
                  IN IF ~Ok(c2) THEN c2
                     ELSE [c2 EXCEPT !.ret = Slice(c2.ret, addr % 2,
                                                   (addr % 2) + length)]

\* lines 2165-2173 with the dry_run test passed: one FT_WriteEE per
\* little-endian word of data, in address order, up to and including the
\* first that fails.  The loop is written out in closed form: `tried' calls
\* are made, and all but a failing last one store their word.
WriteWords(c, addr, data) ==
  LET n == Len(data) \div 2
      k == Len(c.calls)
      bad(i) == c.f.handle # "open" \/ c.failAt = k + i
      failed == \E i \in 1..n : bad(i)
      tried == IF failed THEN CHOOSE i \in 1..n : bad(i) /\ \A j \in 1..(i - 1) : ~bad(j)
               ELSE n
      stored == IF failed THEN tried - 1 ELSE n
      written == [i \in 1..tried |->
                    [fn |-> "FT_WriteEE",
                     args |-> <<(addr + 2 * (i - 1)) \div 2,
                                data[2 * i - 1] + 256 * data[2 * i]>>]]
      image == [j \in 1..Len(c.d.eeprom) |->
                  IF addr < j /\ j <= addr + 2 * stored
                  THEN data[j - addr] ELSE c.d.eeprom[j]]
      c1 == [c EXCEPT !.calls = @ \o written,
                      !.rc = IF failed THEN 1 ELSE 0,
                      !.faults = IF failed THEN @ + 1 ELSE @,
                      !.d.eeprom = image]
  IN IF n = 0 THEN c
     ELSE IF c.f.handle = "unset" THEN Raise(c, "AttributeError", "_d2xx")
     ELSE IF failed THEN Raise(c1, "FtdiEepromError", "EEPROM Write Error")
     ELSE c1

\* EepromWords with the dry_run test left out
EepromWords_no_dry_run(c, addr, data, dry_run) == WriteWords(c, addr, data)

\* lines 2165-2173: the loop over the words of data
EepromWords(c, addr, data, dry_run) ==
  IF dry_run THEN c ELSE WriteWords(c, addr, data)

\* lines 2160-2173: the body of the try statement
EepromTry(c, addr, data, dry_run, latency) ==
  LET c1 == IF latency # 0 THEN set_latency_timer(c, LATENCY_EEPROM_FT232R) ELSE c
  IN IF ~Ok(c1) THEN c1
     ELSE IF addr % 2 = 1 \/ Len(data) % 2 = 1
          THEN Raise(c1, "ValueError", "Address/length not even")
     ELSE EepromWords(c1, addr, data, dry_run)

\* EepromFinally with the latency timer left as it is
EepromFinally_no_restore(c, latency) == c

\* lines 2174-2176: the finally clause; an exception it raises replaces the
\* one that was on its way
EepromFinally(c, latency) ==
  IF latency = 0 THEN c
  ELSE LET c1 == set_latency_timer([c EXCEPT !.exc = "none", !.msg = ""], latency)
       IN IF Ok(c1) THEN [c1 EXCEPT !.exc = c.exc, !.msg = c.msg] ELSE c1

_write_eeprom_raw(c, addr, data, dry_run) ==
  LET c0 == device_version(c)
  IN IF ~Ok(c0) THEN c0
     ELSE LET c1 == IF c0.ret = FT232R THEN get_latency_timer(c0)
                    ELSE [c0 EXCEPT !.ret = 0]
          IN IF ~Ok(c1) THEN c1
             ELSE EepromFinally(EepromTry(c1, addr, data, dry_run, c1.ret), c1.ret)

\* eeprom[addr:addr+len(data)] = data
Patch(eeprom, addr, data) ==
  SubSeq(eeprom, 1, addr) \o data
    \o SubSeq(eeprom, addr + Len(data) + 1, Len(eeprom))

\* lines 1722-1755, after the image has been read
write_eeprom_image(c, image, addr, data, eeprom_size, dry_run) ==
  LET patched == Patch(image, addr, data)
      c1 == calc_eeprom_checksum(c, SubSeq(patched, 1, Len(patched) - 2))
  IN IF ~Ok(c1) THEN c1
     ELSE LET chksum == c1.ret
              n == Len(patched)
              eeprom == IF c1.f.devVersion = FT230X
                        THEN [patched EXCEPT ![127] = chksum % 256,
                                             ![128] = chksum \div 256]
                        ELSE [patched EXCEPT ![n - 1] = chksum % 256,
                                             ![n] = chksum \div 256]
              start == IF addr % 2 = 1 THEN addr - 1 ELSE addr
              size0 == IF addr % 2 = 1 THEN Len(data) + 1 ELSE Len(data)
              size1 == IF size0 % 2 = 1 THEN size0 + 1 ELSE size0
              size == IF size1 > eeprom_size - 2 THEN eeprom_size - 2 ELSE size1
              c2 == _write_eeprom_raw(c1, start, Slice(eeprom, start, start + size),
                                      dry_run)
          IN IF ~Ok(c2) THEN c2
             ELSE _write_eeprom_raw(c2, eeprom_size - 2,
                                    SubSeq(eeprom, n - 1, n), dry_run)

\* write_eeprom with the test of the region left out
write_eeprom_any_region(c, addr, data, eeprom_size0, dry_run) ==
  LET c1 == _check_eeprom_size(c, eeprom_size0)
  IN IF ~Ok(c1) THEN c1
     ELSE LET eeprom_size == c1.ret
              c2 == [c1 EXCEPT !.ret = 0]
          IN IF data = <<>> THEN c2
             ELSE LET c3 == read_eeprom(c2, 0, eeprom_size, -1)
                  IN IF ~Ok(c3) THEN c3
                     ELSE write_eeprom_image([c3 EXCEPT !.ret = 0], c3.ret, addr,
                                             data, eeprom_size, dry_run)

write_eeprom(c, addr, data, eeprom_size0, dry_run) ==
  LET c1 == _check_eeprom_size(c, eeprom_size0)
  IN IF ~Ok(c1) THEN c1
     ELSE LET eeprom_size == c1.ret
              c2 == [c1 EXCEPT !.ret = 0]
          IN IF data = <<>> THEN c2
             ELSE IF addr < 0 \/ addr + Len(data) > eeprom_size
                  THEN Raise(c2, "ValueError", "Invalid address/length")
             ELSE LET c3 == read_eeprom(c2, 0, eeprom_size, -1)
                  IN IF ~Ok(c3) THEN c3
                     ELSE write_eeprom_image([c3 EXCEPT !.ret = 0], c3.ret, addr,
                                             data, eeprom_size, dry_run)

overwrite_eeprom(c, data, dry_run) ==
  LET c1 == device_version(c)
  IN IF ~Ok(c1) THEN c1
     ELSE LET c2 == [c1 EXCEPT !.ret = 0]
          IN IF c1.ret \in DOMAIN INT_EEPROMS
             THEN IF Len(data) # INT_EEPROMS[c1.ret]
                  THEN Raise(c2, "ValueError", "Invalid EEPROM size")
                  ELSE _write_eeprom_raw(c2, 0, data, dry_run)
             ELSE IF \A i \in DOMAIN EXT_EEPROM_SIZES : EXT_EEPROM_SIZES[i] # Len(data)
                  THEN Raise(c2, "ValueError", "Invalid EEPROM size")
             ELSE _write_eeprom_raw(c2, 0, data, dry_run)

-----------------------------------------------------------------------------
(* The session after Ftdi(), and a chip behind the transport               *)

NewFtdi ==
  [handle |-> "unset", devVersion |-> -1, index |-> 0,
   baudrate |-> -1, readbuffer |-> <<>>, readoffset |-> 0,
   readbuffer_chunksize |-> DefaultChunkSize,
   writebuffer_chunksize |-> DefaultChunkSize,
   max_packet_size |-> 0, bitmode |-> "RESET",
   latency |-> 0, latency_count |-> 0,
   latency_min |-> LATENCY_MIN, latency_max |-> LATENCY_MAX,
   latency_threshold |-> 0, cbus_pins |-> <<0, 0>>, cbus_out |-> 0]

\* The chip and the transport: devType is what FT_GetDeviceInfo reports, rx
\* the bytes held for the host, seq the number of payload bytes the chip
\* has produced so far, framed whether FT_Read hands the data back with a
\* status prologue at every max-packet-size boundary, modems the modem
\* status words FT_GetModemStatus may report, latency the chip's latency timer, bitmode its bit-mode,
\* eeprom the configuration memory, opened the transport handles open,
\* sends the bursts of bytes received from the line, partial whether
\* FT_Write may take a transfer in part, echo how the chip answers an
\* op-code it does not know, pending the bytes of an unfinished command,
\* baudrate the rate last given to FT_SetBaudRate, loopback whether the
\* MPSSE engine loops its output back to its input.
NewDev(devType, framed, image) ==
  [devType |-> devType, rx |-> <<>>, seq |-> 0, framed |-> framed,
   modems |-> {0}, latency |-> 16, bitmode |-> "RESET", eeprom |-> image,
   opened |-> 0, sends |-> 0, partial |-> TRUE, echo |-> "ok",
   pending |-> <<>>, baudrate |-> 0, loopback |-> FALSE]

NoOp == [op |-> "init", args |-> <<>>, calls |-> <<>>, exc |-> "none",
         msg |-> "", ret |-> 0, sent |-> <<>>, acks |-> <<>>, nreads |-> 0,
         packets |-> <<>>, reports |-> <<>>, requests |-> <<>>,
         faults |-> 0, resp |-> <<>>, bytes_ |-> <<>>,
         before |-> [cached |-> <<>>, latency |-> 0, latency_count |-> 0]]

-----------------------------------------------------------------------------
(* Actions shared by the specifications                                    *)

OpenFromDevice ==
  \E failAt \in 0..MaxFailAt :
    /\ dev.opened < MaxOpened
    /\ \E c \in {open_from_device(Ctx(failAt), 1)} :
         FailUsed(c) /\ Commit("open_from_device", <<1>>, c)

Close ==
  \E c \in {close(Ctx(0))} :
    Commit("close", <<>>, c)

\* The chip receives k bytes from the line while it holds none for the
\* host; the bytes are numbered in the order they arrive.
DeviceSend(amounts) ==
  \E k \in amounts :
    /\ dev.opened > 0
    /\ dev.rx = <<>>
    /\ dev.sends < MaxSends
    /\ dev' = [dev EXCEPT !.rx = [i \in 1..k |-> dev.seq + i - 1],
                          !.seq = @ + k, !.sends = @ + 1]
    /\ UNCHANGED <<ftdi, last>>

ReadDataBytes(sizes, attempts, gens) ==
  \E size \in sizes, attempt \in attempts, gen \in gens, failAt \in 0..MaxFailAt :
    \E c \in read_data_bytes(Ctx(failAt), size, attempt, gen) :
      /\ FailUsed(c)
      /\ c.f.latency_count <= MaxCount
      /\ Commit("read_data_bytes", <<size, attempt, gen>>, c)

ReadData(sizes) ==
  \E size \in sizes, failAt \in 0..MaxFailAt :
    \E c \in read_data(Ctx(failAt), size) :
      /\ FailUsed(c)
      /\ c.f.latency_count <= MaxCount
      /\ Commit("read_data", <<size, 1, "none">>, c)

SetDynamicLatency(lmins, lmaxs, thresholds) ==
  \E lmin \in lmins, lmax \in lmaxs, threshold \in thresholds,
     failAt \in 0..MaxFailAt :
    \E c \in {set_dynamic_latency(Ctx(failAt), lmin, lmax, threshold)} :
      FailUsed(c) /\ Commit("set_dynamic_latency", <<lmin, lmax, threshold>>, c)

OpenMpsseFromDevice(interfaces, directions, frequencies) ==
  \E interface \in interfaces, direction \in directions,
     frequency \in frequencies, failAt \in 0..MaxFailAt :
    /\ dev.opened < MaxOpened
    /\ \E c \in open_mpsse_from_device(Ctx(failAt), interface, direction, 0,
                                       frequency, 16) :
         /\ FailUsed(c)
         /\ Commit("open_mpsse_from_device",
                   <<interface, direction, 0, frequency, 16>>, c)

ValidateMpsse ==
  \E failAt \in 0..MaxFailAt :
    \E c \in validate_mpsse(Ctx(failAt)) :
      FailUsed(c) /\ Commit("validate_mpsse", <<>>, c)

WriteCommand(commands) ==
  \E data \in commands, failAt \in 0..MaxFailAt :
    \E c \in write_data(Ctx(failAt), data) :
      /\ FailUsed(c)
      /\ Len(c.d.rx) <= MaxQueued
      /\ Commit("write_data", <<data>>, c)

WriteEeprom(addrs, datas, sizes) ==
  \E addr \in addrs, data \in datas, eeprom_size \in sizes, dry_run \in BOOLEAN,
     failAt \in 0..MaxFailAt :
    \E c \in {write_eeprom(Ctx(failAt), addr, data, eeprom_size, dry_run)} :
      FailUsed(c) /\ Commit("write_eeprom", <<addr, data, eeprom_size, dry_run>>, c)

CalcEepromChecksum(datas) ==
  \E data \in datas :
    \E c \in {calc_eeprom_checksum(Ctx(0), data)} :
      Commit("calc_eeprom_checksum", <<data>>, c)

EnableAdaptiveClock ==
  \E enable \in BOOLEAN, failAt \in 0..MaxFailAt :
    \E c \in enable_adaptive_clock(Ctx(failAt), enable) :
      /\ FailUsed(c)
      /\ Len(c.d.rx) <= MaxQueued
      /\ Commit("enable_adaptive_clock", <<enable>>, c)

Enable3PhaseClock ==
  \E enable \in BOOLEAN, failAt \in 0..MaxFailAt :
    \E c \in enable_3phase_clock(Ctx(failAt), enable) :
      /\ FailUsed(c)
      /\ Len(c.d.rx) <= MaxQueued
      /\ Commit("enable_3phase_clock", <<enable>>, c)

SetFrequency(frequencies) ==
  \E frequency \in frequencies, failAt \in 0..MaxFailAt :
    \E c \in set_frequency(Ctx(failAt), frequency) :
      /\ FailUsed(c)
      /\ Len(c.d.rx) <= MaxQueued
      /\ Commit("set_frequency", <<frequency>>, c)

EnableDrivezeroMode(masks) ==
  \E lines \in masks, failAt \in 0..MaxFailAt :
    \E c \in enable_drivezero_mode(Ctx(failAt), lines) :
      /\ FailUsed(c)
      /\ Len(c.d.rx) <= MaxQueued
      /\ Commit("enable_drivezero_mode", <<lines>>, c)

SetBaudrate(rates) ==
  \E baudrate \in rates, constrain \in BOOLEAN, failAt \in 0..MaxFailAt :
    \E c \in {set_baudrate(Ctx(failAt), baudrate, constrain)} :
      FailUsed(c) /\ Commit("set_baudrate", <<baudrate, constrain>>, c)

SetBitmode(bitmasks, modes) ==
  \E bitmask \in bitmasks, mode \in modes, failAt \in 0..MaxFailAt :
    \E c \in {set_bitmode(Ctx(failAt), bitmask, mode)} :
      FailUsed(c) /\ Commit("set_bitmode", <<bitmask, mode>>, c)

Reset ==
  \E usb_reset \in BOOLEAN, failAt \in 0..MaxFailAt :
    \E c \in {reset(Ctx(failAt), usb_reset)} :
      FailUsed(c) /\ Commit("reset", <<usb_reset>>, c)

PurgeRxBuffer ==
  \E failAt \in 0..MaxFailAt :
    \E c \in {purge_rx_buffer(Ctx(failAt))} :
      FailUsed(c) /\ Commit("purge_rx_buffer", <<>>, c)

PurgeBuffers ==
  \E failAt \in 0..MaxFailAt :
    \E c \in {purge_buffers(Ctx(failAt))} :
      FailUsed(c) /\ Commit("purge_buffers", <<>>, c)

DeviceVersion ==
  \E c \in {device_version(Ctx(0))} :
    Commit("device_version", <<>>, c)

ReadDataSetChunksize(chunksizes) ==
  \E chunksize \in chunksizes :
    \E c \in {read_data_set_chunksize(Ctx(0), chunksize)} :
      Commit("read_data_set_chunksize", <<chunksize>>, c)

WriteDataOf(datas) ==
  \E data \in datas, failAt \in 0..MaxFailAt :
    \E c \in write_data(Ctx(failAt), data) :
      /\ FailUsed(c)
      /\ Commit("write_data", <<data>>, c)

GetCbusGpio ==
  \E failAt \in 0..MaxFailAt :
    \E c \in get_cbus_gpio(Ctx(failAt)) :
      FailUsed(c) /\ Commit("get_cbus_gpio", <<>>, c)

SetCbusGpio(pinsets) ==
  \E pins \in pinsets, failAt \in 0..MaxFailAt :
    \E c \in {set_cbus_gpio(Ctx(failAt), pins)} :
      FailUsed(c) /\ Commit("set_cbus_gpio", <<pins>>, c)

OpenBitbangFromDevice(directions, latencies, baudrates, syncs, failures) ==
  \E direction \in directions, latency \in latencies, baudrate \in baudrates,
     sync \in syncs, failAt \in failures :
    /\ dev.opened < MaxOpened
    /\ \E c \in {open_bitbang_from_device(Ctx(failAt), 1, direction, latency,
                                           baudrate, sync)} :
         /\ FailUsed(c)
         /\ Commit("open_bitbang_from_device",
                   <<1, direction, latency, baudrate, sync>>, c)

SetLatencyTimer(latencies) ==
  \E latency \in latencies, failAt \in 0..MaxFailAt :
    \E c \in {set_latency_timer(Ctx(failAt), latency)} :
      FailUsed(c) /\ Commit("set_latency_timer", <<latency>>, c)

GetLatencyTimer ==
  \E failAt \in 0..MaxFailAt :
    \E c \in {get_latency_timer(Ctx(failAt))} :
      FailUsed(c) /\ Commit("get_latency_timer", <<>>, c)

SetCbusDirection(masks, directions) ==
  \E mask \in masks, direction \in directions :
    \E c \in {set_cbus_direction(Ctx(0), mask, direction)} :
      Commit("set_cbus_direction", <<mask, direction>>, c)

SetFlowctrl(tokens) ==
  \E flowctrl \in tokens, failAt \in 0..MaxFailAt :
    \E c \in {set_flowctrl(Ctx(failAt), flowctrl)} :
      FailUsed(c) /\ Commit("set_flowctrl", <<flowctrl>>, c)

\* length -1 and eeprom_size -1 stand for None
ReadEeprom(addrs, lengths, sizes) ==
  \E addr \in addrs, length \in lengths, eeprom_size \in sizes,
     failAt \in 0..MaxFailAt :
    \E c \in {read_eeprom(Ctx(failAt), addr, length, eeprom_size)} :
      FailUsed(c) /\ Commit("read_eeprom", <<addr, length, eeprom_size>>, c)

OverwriteEeprom(datas) ==
  \E data \in datas, dry_run \in BOOLEAN, failAt \in 0..MaxFailAt :
    \E c \in {overwrite_eeprom(Ctx(failAt), data, dry_run)} :
      FailUsed(c) /\ Commit("overwrite_eeprom", <<data, dry_run>>, c)

-----------------------------------------------------------------------------
(* Bulk write: write_data over a transport that may take part of a         *)
(* transfer                                                                *)

SeqsUpTo(S, n) == UNION {[1..k -> S] : k \in 0..n}

WriteInputs == SeqsUpTo({1, 2}, MaxWriteLen)

WriteDataSetChunksize ==
  \E chunksize \in 0..MaxChunk :
    \E c \in {write_data_set_chunksize(Ctx(0), chunksize)} :
      Commit("write_data_set_chunksize", <<chunksize>>, c)

WriteData ==
  \E data \in WriteInputs, failAt \in 0..MaxFailAt :
    \E c \in write_data(Ctx(failAt), data) :
      FailUsed(c) /\ Commit("write_data", <<data>>, c)

InitWrite ==
  /\ ftdi = NewFtdi
  /\ dev \in {NewDev(t, FALSE, <<>>) : t \in {5, 8}}
  /\ last = NoOp

NextWrite == OpenFromDevice \/ Close \/ WriteDataSetChunksize \/ WriteData

SpecWrite == InitWrite /\ [][NextWrite]_vars

\* the sum of the first n entries of a sequence of numbers
RECURSIVE SumTo(_, _)
SumTo(q, n) == IF n = 0 THEN 0 ELSE q[n] + SumTo(q, n - 1)

\* C4: write_data(data) offers the transport, transfer after transfer, the
\* bytes of data that it has not yet accepted, never more than the write
\* chunk size at once, so that the bytes accepted are always a prefix of
\* data; when it returns, every byte has been accepted exactly once, in
\* order, and the result is len(data); a transfer reported as zero bytes
\* written is the last transport call and the call raises FtdiError.
C4_WriteDataChunks ==
  last.op = "write_data" =>
    LET data == last.args[1]
        chunk == ftdi.writebuffer_chunksize
        done(i) == SumTo(last.acks, i)
    IN /\ last.sent = SubSeq(data, 1, Len(last.sent))
       /\ \A i \in DOMAIN last.calls :
            /\ last.calls[i].fn = "FT_Write"
            /\ Len(last.calls[i].args) <= chunk
            /\ i - 1 <= Len(last.acks)
            /\ last.calls[i].args =
                 SubSeq(data, done(i - 1) + 1,
                        Min(Len(data), done(i - 1) + chunk))
       /\ last.exc = "none" =>
            /\ last.sent = data
            /\ last.ret = Len(data)
            /\ SumTo(last.acks, Len(last.acks)) = Len(data)
       /\ \A i \in DOMAIN last.acks :
            last.acks[i] = 0 =>
              /\ last.exc = "FtdiError"
              /\ i = Len(last.calls)

\* a three-byte write that the transport took in parts, in chunks of two
C4_Witness ==
  /\ last.op = "write_data"
  /\ last.exc = "none"
  /\ Len(last.args[1]) = 3
  /\ ftdi.writebuffer_chunksize = 2
  /\ last.acks = <<1, 2>>

-----------------------------------------------------------------------------
(* Bulk read: packets up to and beyond the max-packet-size boundary, from  *)
(* a transport that frames its data and from one that does not             *)

\* read sizes that end a packet, and sizes just past a packet boundary
PacketSizes ==
  {k * MaxPacketSize + d : k \in 1..MaxPackets, d \in {-2} \cup (1..MaxSmallRead)}

\* bursts that end just after a packet boundary
BurstSizes == {k * MaxPacketSize - 1 : k \in 1..MaxPackets}

InitRead ==
  /\ ftdi = NewFtdi
  /\ dev \in {NewDev(8, framed, <<>>) : framed \in BOOLEAN}
  /\ last = NoOp

SendPackets == DeviceSend(BurstSizes)

ReadPackets == ReadDataBytes(PacketSizes, 1..MaxAttempt, {"none"})

ReadPacketsData == ReadData({0, MaxPacketSize - 1})

NextRead == OpenFromDevice \/ Close \/ SendPackets \/ ReadPackets \/ ReadPacketsData

SpecRead == InitRead /\ [][NextRead]_vars

-----------------------------------------------------------------------------
(* Dynamic latency: short reads of a chip that is mostly silent            *)

InitLatency ==
  /\ ftdi = NewFtdi
  /\ dev = NewDev(5, FALSE, <<>>)
  /\ last = NoOp

ConfigureLatency ==
  SetDynamicLatency({LATENCY_MIN - 1, LATENCY_MIN}, {30, LATENCY_MAX + 1},
                    0..MaxThreshold)

SendBytes == DeviceSend(1..MaxReadLen)

ReadBytes == ReadDataBytes(0..MaxReadLen, 1..MaxAttempt, {"none"})

ReadBytesData == ReadData({MaxReadLen})

NextLatency ==
  OpenFromDevice \/ Close \/ ConfigureLatency \/ SendBytes \/ ReadBytes
    \/ ReadBytesData

SpecLatency == InitLatency /\ [][NextLatency]_vars

-----------------------------------------------------------------------------
(* MPSSE: chips with and without the engine, sound and faulty              *)

EchoKinds == {"ok", "silent", "short", "garbled", "misnamed"}

\* FT2232C, FT232R, FT2232H, FT4232H as FT_GetDeviceInfo numbers them
MpsseDevTypes == {4, 5, 6, 7}

InitMpsse ==
  /\ ftdi = NewFtdi
  /\ dev \in {[NewDev(t, FALSE, <<>>) EXCEPT !.echo = e, !.partial = FALSE] :
               t \in MpsseDevTypes, e \in EchoKinds}
  /\ last = NoOp

OpenMpsse ==
  OpenMpsseFromDevice({1, 3}, {259}, {BUS_CLOCK_BASE, BUS_CLOCK_HIGH + 1})

SendCommand ==
  WriteCommand({<<BogusOpcode>>, <<LOOPBACK_END>>, <<SET_BITS_LOW, 0, 0>>})

NextMpsse == OpenMpsse \/ Close \/ SendCommand \/ ValidateMpsse

SpecMpsse == InitMpsse /\ [][NextMpsse]_vars

-----------------------------------------------------------------------------
(* EEPROM: an FT232R with its internal memory, an FT2232H with an external *)
(* one                                                                     *)

\* n bytes of value v
Fill(n, v) == [i \in 1..n |-> v]

\* a latency timer value other than the one of a chip after reset
SlowLatency == 40

InitEeprom ==
  /\ ftdi = NewFtdi
  /\ dev \in {NewDev(5, FALSE, Fill(128, 0)),
              [NewDev(5, FALSE, Fill(128, 0)) EXCEPT !.latency = SlowLatency],
              NewDev(6, FALSE, Fill(256, 0))}
  /\ last = NoOp

PatchEeprom ==
  WriteEeprom({-1, 0, 255}, {<<>>, <<7>>, <<7, 8>>}, {-1, 0, 256})

ReplaceEeprom ==
  OverwriteEeprom({Fill(n, v) : n \in {2, 128, 256}, v \in 1..MaxFill})

DumpEeprom == ReadEeprom({-1, 0, 1}, {-1, 0, 2}, {-1, 0})

NextEeprom ==
  OpenFromDevice \/ Close \/ PatchEeprom \/ ReplaceEeprom \/ DumpEeprom

SpecEeprom == InitEeprom /\ [][NextEeprom]_vars

-----------------------------------------------------------------------------
(* Checksums of images on an FT232R and on an FT230X                       *)

\* the lengths of the images: none, odd ones, short ones, one that ends
\* inside the MTP user section of the FT230X and one that ends past it
ImageLengths == {0, 1, 2, 3, 4, 38, 130}

\* the byte every image is filled with, the offsets of the one byte that
\* differs and the values of that byte
ImageFills == {0, 165}
ImageMarks == {2, 37, 130}
ImageMarkValues == {1, 128}

Images ==
  {[i \in 1..n |-> IF i = p THEN w ELSE v] :
     n \in ImageLengths, v \in ImageFills, p \in ImageMarks, w \in ImageMarkValues}

InitChecksum ==
  /\ ftdi = NewFtdi
  /\ dev \in {NewDev(5, FALSE, <<>>), NewDev(9, FALSE, <<>>)}
  /\ last = NoOp

ChecksumImage == CalcEepromChecksum(Images)

NextChecksum == OpenFromDevice \/ Close \/ ChecksumImage

SpecChecksum == InitChecksum /\ [][NextChecksum]_vars

-----------------------------------------------------------------------------
(* Baud rates on a legacy chip, a full-speed chip and a high-speed chip, in *)
(* UART, bit-bang and MPSSE mode                                           *)

BaudDevTypes == {1, 5, 6}

\* the nominal UART rates, and rates no divisor comes close to
BaudRates == {9600, 19200, 38400, 57600, 115200, 2500000, 3000000, 13000000}

InitBaud ==
  /\ ftdi = NewFtdi
  /\ dev \in {NewDev(t, FALSE, <<>>) : t \in BaudDevTypes}
  /\ last = NoOp

ChooseBaudrate == SetBaudrate(BaudRates)

ChooseBitmode == SetBitmode({0}, {"RESET", "BITBANG", "MPSSE"})

NextBaud == OpenFromDevice \/ Close \/ ChooseBaudrate \/ ChooseBitmode

SpecBaud == InitBaud /\ [][NextBaud]_vars

-----------------------------------------------------------------------------
(* Clock and drive modes on an FT2232C, an FT2232H and an FT232H, in and   *)
(* out of MPSSE mode                                                       *)

ClockDevTypes == {4, 6, 8}

InitClock ==
  /\ ftdi = NewFtdi
  /\ dev \in {[NewDev(t, FALSE, <<>>) EXCEPT !.partial = FALSE] :
               t \in ClockDevTypes}
  /\ last = NoOp

OpenMpsseClock == OpenMpsseFromDevice({1}, {259}, {BUS_CLOCK_BASE})

SetDrivezero == EnableDrivezeroMode({0, 513})

NextClock ==
  \/ OpenFromDevice \/ OpenMpsseClock \/ Close
  \/ EnableAdaptiveClock \/ Enable3PhaseClock \/ SetDrivezero

SpecClock == InitClock /\ [][NextClock]_vars

-----------------------------------------------------------------------------
(* MPSSE clock frequencies on an FT2232C and on an FT2232H                 *)

FrequencyDevTypes == {4, 6}

\* frequencies both dividers clamp at, that one clamps at, that one or the
\* other clock serves better, at and past the two maxima
Frequencies ==
  {50, 400, 1000, 2400000, 4000000, 5000000, BUS_CLOCK_BASE, BUS_CLOCK_BASE + 1,
   10000000, BUS_CLOCK_HIGH, BUS_CLOCK_HIGH + 1}

InitFrequency ==
  /\ ftdi = NewFtdi
  /\ dev \in {[NewDev(t, FALSE, <<>>) EXCEPT !.partial = FALSE] :
               t \in FrequencyDevTypes}
  /\ last = NoOp

OpenMpsseFrequency == OpenMpsseFromDevice({1}, {259}, {BUS_CLOCK_BASE})

ChooseFrequency == SetFrequency(Frequencies)

NextFrequency ==
  OpenFromDevice \/ OpenMpsseFrequency \/ Close \/ ChooseFrequency

SpecFrequency == InitFrequency /\ [][NextFrequency]_vars

-----------------------------------------------------------------------------
(* Operating modes of a session on an FT232H, which has an MPSSE engine    *)
(* and CBUS pins                                                           *)

InitMode ==
  /\ ftdi = NewFtdi
  /\ dev = [NewDev(8, FALSE, <<>>) EXCEPT !.partial = FALSE]
  /\ last = NoOp

ModeOpenMpsse == OpenMpsseFromDevice({1}, {259}, {BUS_CLOCK_BASE})

ModeOpenBitbang ==
  OpenBitbangFromDevice({1}, {16}, {0}, {FALSE}, 0..MaxFailAt)

ModeBitmode == SetBitmode({0}, {"RESET", "CBUS"})

\* CBUS pins 0 and 1 in use, pin 0 an output
ModeCbusDirection == SetCbusDirection({3}, {1})

ModeSetCbusGpio == SetCbusGpio({1, 16})

ModeRead == ReadData({1})

\* a command the MPSSE engine takes without an answer
ModeWrite == WriteCommand({<<LOOPBACK_END>>})

ModeBaudrate == SetBaudrate({115200})

ModeFrequency == SetFrequency({BUS_CLOCK_BASE})

ModeLatencyTimer == SetLatencyTimer({16})

ModeDynamicLatency == SetDynamicLatency({LATENCY_MIN}, {LATENCY_MIN}, {0})

NextMode ==
  \/ ModeOpenMpsse \/ ModeOpenBitbang
  \/ ModeBitmode \/ ModeCbusDirection \/ GetCbusGpio \/ ModeSetCbusGpio
  \/ ModeRead \/ ModeWrite \/ PurgeBuffers \/ ValidateMpsse
  \/ ModeBaudrate \/ ModeFrequency
  \/ ModeLatencyTimer \/ GetLatencyTimer \/ ModeDynamicLatency

SpecMode == InitMode /\ [][NextMode]_vars

-----------------------------------------------------------------------------
(* Configuration requests with good and bad arguments on an FT232R, with   *)
(* bytes in the read cache                                                 *)

InitConfig ==
  /\ ftdi = NewFtdi
  /\ dev = NewDev(5, FALSE, Fill(128, 0))
  /\ last = NoOp

ConfigBaudrate == SetBaudrate({115200, 2500000})

ConfigBitmode == SetBitmode({0}, {"RESET", "BITBANG"})

ConfigCbus == SetCbusDirection({3, 16}, {-1, 1})

ConfigFlowctrl == SetFlowctrl({"hw", "sw"})

ConfigReadEeprom == ReadEeprom({-1, 0}, {2}, {-1, 64})

ConfigWriteEeprom == WriteEeprom({-1, 127}, {<<>>, <<7, 8>>}, {-1, 64})

ConfigSend == DeviceSend({MaxReadLen})

ConfigRead == ReadData({1})

NextConfig ==
  OpenFromDevice \/ Close \/ ConfigBaudrate \/ ConfigBitmode \/ ConfigCbus
    \/ ConfigFlowctrl \/ ConfigReadEeprom \/ ConfigWriteEeprom
    \/ ConfigSend \/ ConfigRead

SpecConfig == InitConfig /\ [][NextConfig]_vars

-----------------------------------------------------------------------------
(* The life of a session: before the first open, while open, after close   *)
(* and after a later open, on an FT232R                                    *)

InitSession ==
  /\ ftdi = NewFtdi
  /\ dev = NewDev(5, FALSE, <<>>)
  /\ last = NoOp

SessionSend == DeviceSend(1..MaxReadLen)

SessionRead == ReadData(0..MaxReadLen)

SessionWrite == WriteDataOf({<<>>, <<1>>})

SessionBitmode == SetBitmode({0}, {"RESET", "BITBANG"})

SessionChunksize == ReadDataSetChunksize({0, MaxChunk})

NextSession ==
  OpenFromDevice \/ Close \/ Reset \/ PurgeRxBuffer \/ PurgeBuffers \/ DeviceVersion
    \/ SessionSend \/ SessionRead \/ SessionWrite \/ SessionBitmode
    \/ SessionChunksize

SpecSession == InitSession /\ [][NextSession]_vars

-----------------------------------------------------------------------------
(* Dynamic latency with bounds in either order, on an FT232R               *)

InitBounds ==
  /\ ftdi = NewFtdi
  /\ dev = NewDev(5, FALSE, <<>>)
  /\ last = NoOp

ConfigureBounds == SetDynamicLatency({LATENCY_MIN, 40}, {20, 48}, 0..1)

BoundsSend == DeviceSend({1})

BoundsRead == ReadDataBytes({1}, 1..MaxAttempt, {"none"})

NextBounds ==
  OpenFromDevice \/ Close \/ ConfigureBounds \/ BoundsSend \/ BoundsRead

SpecBounds == InitBounds /\ [][NextBounds]_vars

-----------------------------------------------------------------------------
(* Reads with a continuation callback, on an FT232R whose transmitter is   *)
(* empty at times                                                          *)

\* the modem status word with the two transmitter-empty bits set
TxEmptyStatus == TX_EMPTY_BITS * 256

InitRequest ==
  /\ ftdi = NewFtdi
  /\ dev = [NewDev(5, FALSE, <<>>) EXCEPT !.modems = {0, TxEmptyStatus},
                                          !.partial = FALSE]
  /\ last = NoOp

RequestSend == DeviceSend(1..MaxReadLen)

\* "command" is a callback that returns one byte, "quiet" one that returns
\* none
RequestRead == ReadDataBytes(1..MaxReadLen, {1}, {"command", "quiet"})

NextRequest == OpenFromDevice \/ Close \/ RequestSend \/ RequestRead

SpecRequest == InitRequest /\ [][NextRequest]_vars

-----------------------------------------------------------------------------
(* Opens that fail at any step, and opens of an open session, on an FT232H *)

\* a latency the timer takes and one below LATENCY_MIN; no baud rate, and
\* one the chip can do
OpenBitbangAnyStep ==
  OpenBitbangFromDevice({1}, {16, 5}, {0, 115200}, {FALSE}, 0..MaxOpenFailAt)

NextOpen == OpenFromDevice \/ ModeOpenMpsse \/ OpenBitbangAnyStep \/ Close

SpecOpen == InitMode /\ [][NextOpen]_vars

-----------------------------------------------------------------------------
(* Reads longer than the read chunk size, on an FT232R                     *)

InitChunk ==
  /\ ftdi = NewFtdi
  /\ dev = NewDev(5, FALSE, <<>>)
  /\ last = NoOp

\* the automatic chunk size, and one byte
ChunkSize == ReadDataSetChunksize({0, 1})

ChunkSend == DeviceSend({MaxReadLen})

ChunkRead == ReadDataBytes(1..MaxReadLen, 1..MaxAttempt, {"none"})

NextChunk == OpenFromDevice \/ Close \/ ChunkSize \/ ChunkSend \/ ChunkRead

SpecChunk == InitChunk /\ [][NextChunk]_vars

-----------------------------------------------------------------------------
(* Claims about bulk reads                                                 *)

ReadOps == {"read_data_bytes", "read_data"}

\* the unread part of the read cache
CacheRest == SubSeq(ftdi.readbuffer, ftdi.readoffset + 1, Len(ftdi.readbuffer))

\* The payload of a packet laid out with a 2-byte status prologue at the
\* start of every MaxPacketSize bytes: its k-th payload byte sits behind
\* the prologues of the chunks up to its own.
PayloadLen(n) == n - 2 * (n \div MaxPacketSize) - Min(n % MaxPacketSize, 2)

PayloadOf(packet) ==
  [k \in 1..PayloadLen(Len(packet)) |->
     packet[k + 2 * (((k - 1) \div (MaxPacketSize - 2)) + 1)]]

RECURSIVE PayloadsUpTo(_, _)
PayloadsUpTo(packets, i) ==
  IF i = 0 THEN <<>>
  ELSE PayloadsUpTo(packets, i - 1) \o PayloadOf(packets[i])

\* C1: over a transport that puts a 2-byte status prologue at every
\* max-packet-size boundary, a read that returns hands back the unread
\* cache followed by the payload segments of the packets it received, in
\* order, every status byte removed and no payload byte dropped or
\* repeated; the bytes are consecutive bytes of the stream and the chip's
\* next byte is the one after the last returned.
C1_FramingReassembly ==
  (last.op \in ReadOps /\ dev.framed /\ last.exc = "none") =>
    /\ last.ret \o CacheRest
         = last.before.cached \o PayloadsUpTo(last.packets, Len(last.packets))
    /\ \A i \in DOMAIN last.ret : last.ret[i] # StatusMark
    /\ \A i \in 1..(Len(last.ret) - 1) : last.ret[i + 1] = last.ret[i] + 1
    /\ (last.ret # <<>> /\ dev.rx # <<>>) =>
         dev.rx[1] = last.ret[Len(last.ret)] + 1

\* a read whose first buffer held three packets, two full ones and a third
\* with a single payload byte, and that went on to read the rest
C1_Witness ==
  /\ last.op = "read_data_bytes" /\ dev.framed /\ last.exc = "none"
  /\ Len(last.packets) = 3
  /\ Len(last.packets[1]) = 2 * MaxPacketSize + 3
  /\ Len(last.packets[2]) = 4
  /\ Len(last.ret) = 2 * (MaxPacketSize - 2) + 3

\* C3: read_data_bytes(size) and read_data(size) never return more than
\* size bytes.
C3_ReadAtMostSize ==
  (last.op \in ReadOps /\ last.exc = "none") => Len(last.ret) <= last.args[1]

\* a read that needed two transport reads to return exactly size bytes
C3_Witness ==
  /\ last.op \in ReadOps /\ last.exc = "none"
  /\ last.args[1] > 0 /\ Len(last.ret) = last.args[1]
  /\ last.nreads = 2

\* every transport read of the last operation returned the prologue only
PrologueOnly == \A i \in DOMAIN last.packets : Len(last.packets[i]) = 2

\* a read_data_bytes call with attempt >= 1 on a session that was opened,
\* during which no transport call failed
ShortReadCase ==
  /\ last.op = "read_data_bytes" /\ last.args[2] >= 1
  /\ ftdi.max_packet_size # 0 /\ last.exc # "AttributeError"
  /\ last.faults = 0

\* C2 as stated: when every transport read returns only the prologue, the
\* call issues exactly attempt transport reads and returns what it has
\* accumulated without raising.
C2_AttemptReadsAlways ==
  (ShortReadCase /\ PrologueOnly) =>
    /\ last.nreads = last.args[2]
    /\ last.exc = "none"
    /\ last.ret = last.before.cached

\* C2: when the cache holds fewer than size bytes, every transport read
\* returns only the prologue and no transport call fails, the call issues
\* exactly attempt transport reads and returns the unread bytes of the
\* cache without raising; when the cache holds size bytes it issues no
\* transport read; and in every call each run of attempt + 1 transport
\* reads has one with payload.
C2_ShortReadTolerance ==
  /\ (ShortReadCase /\ PrologueOnly) =>
       /\ last.exc = "none"
       /\ last.nreads = IF last.args[1] <= Len(last.before.cached)
                        THEN 0 ELSE last.args[2]
       /\ last.args[1] > Len(last.before.cached) => last.ret = last.before.cached
  /\ (last.op = "read_data_bytes" /\ last.args[2] >= 1) =>
       \A i \in 1..(Len(last.packets) - last.args[2]) :
         \E j \in i..(i + last.args[2]) : Len(last.packets[j]) > 2

\* two prologue-only reads, allowed by attempt = 2, end the call
C2_Witness ==
  /\ ShortReadCase /\ PrologueOnly
  /\ last.args[1] > 0 /\ last.args[2] = 2
  /\ last.nreads = 2 /\ last.exc = "none" /\ last.ret = <<>>

\* the bytes still missing in the read l once its packets 1..n are in: the
\* size less what the cache held and what the packets carried
RECURSIVE DeficitAfter(_, _)
DeficitAfter(l, n) ==
  IF n = 0 THEN l.args[1] - Len(l.before.cached)
  ELSE DeficitAfter(l, n - 1) - (Len(l.packets[n]) - 2)

\* the status of the packet signals that the transmitter is empty
TxEmpty(packet) == BitAnd(packet[2], TX_EMPTY_BITS) # 0

\* the calls of the callback the packets 1..n of the read l ask for
RECURSIVE RequestsUpTo(_, _)
RequestsUpTo(l, n) ==
  IF n = 0 THEN <<>>
  ELSE RequestsUpTo(l, n - 1)
         \o (IF TxEmpty(l.packets[n]) /\ DeficitAfter(l, n) > 0
             THEN <<DeficitAfter(l, n)>> ELSE <<>>)

\* the transport writes of the read l
WriteCalls(l) == {i \in DOMAIN l.calls : l.calls[i].fn = "FT_Write"}

\* C24: a read_data_bytes with a callback that returned with no transport
\* failure called the callback once for every packet whose status had a
\* transmitter-empty bit set while bytes were missing, in order, each time
\* with the bytes then missing, and never with 0; a callback that returns a
\* byte had it written right after the packet came in, before the next
\* transport read, and one that returns nothing caused no write.
C24_CallbackDeficit ==
  (last.op = "read_data_bytes" /\ last.args[3] # "none"
     /\ last.faults = 0 /\ last.exc = "none") =>
    /\ last.requests = RequestsUpTo(last, Len(last.packets))
    /\ \A i \in DOMAIN last.requests : last.requests[i] > 0
    /\ Cardinality(WriteCalls(last)) =
         (IF last.args[3] = "command" THEN Len(last.requests) ELSE 0)
    /\ \A i \in WriteCalls(last) :
         /\ last.calls[i].args = RequestGen(last.args[3], 1)
         /\ i > 1 /\ last.calls[i - 1].fn = "FT_GetModemStatus"

-----------------------------------------------------------------------------
(* Claims about dynamic latency                                            *)

\* the latency value was programmed into the chip by the last operation
Programmed(lat) ==
  /\ \E i \in DOMAIN last.calls :
       last.calls[i] = [fn |-> "FT_SetLatencyTimer", args |-> <<lat>>]
  /\ dev.latency = lat

\* C8: with dynamic latency configured, the payload-absent report that
\* brings the absence counter to threshold while the latency is below max
\* doubles the latency (clamped to max) and programs the new value into the
\* chip; a payload-seen report sets a latency that was not min back to min
\* and programs it.
C8_LatencyAdaptation ==
  (last.op \in ReadOps /\ last.faults = 0 /\ last.exc = "none"
     /\ ftdi.latency_threshold # 0) =>
    /\ (last.reports = <<FALSE>>
          /\ last.before.latency_count + 1 = ftdi.latency_threshold
          /\ last.before.latency < ftdi.latency_max) =>
         /\ ftdi.latency = Min(2 * last.before.latency, ftdi.latency_max)
         /\ Programmed(ftdi.latency)
    /\ (last.reports = <<TRUE>>
          /\ last.before.latency # ftdi.latency_min) =>
         /\ ftdi.latency = ftdi.latency_min
         /\ Programmed(ftdi.latency_min)

\* the operation l called FT_SetLatencyTimer
LatencyCalls(l) ==
  \E i \in DOMAIN l.calls : l.calls[i].fn = "FT_SetLatencyTimer"

\* C19: a read made while the latency threshold is unset, whether it
\* receives payload or only prologues, reports nothing to _adapt_latency,
\* does not call FT_SetLatencyTimer and leaves the chip's latency timer and
\* the session's latency fields as they were; the threshold is unset after
\* every open that returned and after every set_dynamic_latency with
\* threshold 0, and a read leaves it unset.  (A step in which the chip
\* receives bytes from the line is no step of the session.)
C19_DynamicLatencyDisabled ==
  [][dev'.sends = dev.sends =>
       /\ (last'.op \in ReadOps /\ ftdi.latency_threshold = 0) =>
            /\ last'.reports = <<>>
            /\ ~LatencyCalls(last')
            /\ dev'.latency = dev.latency
            /\ ftdi'.latency = ftdi.latency
            /\ ftdi'.latency_count = ftdi.latency_count
            /\ ftdi'.latency_threshold = 0
       /\ (last'.op = "set_dynamic_latency" /\ last'.args[3] = 0) =>
            (last'.exc = "none" /\ ftdi'.latency_threshold = 0)
       /\ (last'.op = "open_from_device" /\ last'.exc = "none") =>
            ftdi'.latency_threshold = 0]_vars

\* a read received payload on a session whose dynamic latency had been
\* configured with the bounds 12 and 30 and then disabled: the chip's timer
\* is still at 12
C19_Witness ==
  /\ last.op \in ReadOps /\ last.exc = "none" /\ last.ret # <<>>
  /\ ftdi.latency_threshold = 0 /\ ftdi.latency_max = 30
  /\ last.reports = <<>> /\ dev.latency = LATENCY_MIN

\* one report per packet: payload seen for a packet longer than its
\* prologue, payload absent for the others
ReportPerPacket(packets) == [i \in DOMAIN packets |-> Len(packets[i]) > 2]

\* the reports for the packets 1..n of a read that received `packets': payload
\* seen for each packet with payload, payload absent for the last packet
\* only, when it has none
RECURSIVE ReportsUpTo(_, _)
ReportsUpTo(packets, n) ==
  IF n = 0 THEN <<>>
  ELSE ReportsUpTo(packets, n - 1)
         \o (IF Len(packets[n]) > 2 THEN <<TRUE>>
             ELSE IF n = Len(packets) THEN <<FALSE>>
             ELSE <<>>)

\* C22 as stated: with dynamic latency configured, a read that returned with
\* no transport failure made one report per packet it received, in order:
\* payload absent for a prologue-only packet, payload seen for the others.
C22_ReportPerPacket ==
  (last.op \in ReadOps /\ last.faults = 0 /\ last.exc = "none"
     /\ ftdi.latency_threshold # 0) =>
    last.reports = ReportPerPacket(last.packets)

\* C22 amended: with dynamic latency configured, a read that returned with
\* no transport failure reported payload seen once for every packet with
\* payload, in order, and payload absent once, as its last report, exactly
\* when its last packet was prologue-only: the prologue-only packets that
\* are retried are not reported.
C22_ReportsOfRead ==
  (last.op \in ReadOps /\ last.faults = 0 /\ last.exc = "none"
     /\ ftdi.latency_threshold # 0) =>
    last.reports = ReportsUpTo(last.packets, Len(last.packets))

\* a read with attempt = 2 received a packet with payload and then two
\* prologue-only packets, and made two reports
C22_Witness ==
  /\ last.op = "read_data_bytes" /\ last.exc = "none" /\ last.faults = 0
  /\ ftdi.latency_threshold # 0 /\ last.args[2] = 2
  /\ Len(last.packets) = 3 /\ Len(last.packets[1]) > 2
  /\ Len(last.packets[2]) = 2 /\ Len(last.packets[3]) = 2
  /\ last.reports = <<TRUE, FALSE>>

\* C23: while dynamic latency is configured the latency the session tracks
\* lies between the configured minimum and maximum, and between 12 and 255.
C23_LatencyWithinBounds ==
  ftdi.latency_threshold # 0 =>
    /\ ftdi.latency_min <= ftdi.latency /\ ftdi.latency <= ftdi.latency_max
    /\ LATENCY_MIN <= ftdi.latency /\ ftdi.latency <= LATENCY_MAX

-----------------------------------------------------------------------------
(* Claims about MPSSE                                                      *)

\* the chip has an MPSSE engine
ChipHasMpsse ==
  DevVersionOf(dev.devType) \in {FT2232C, FT2232H, FT4232H, FT232H}

\* the last operation sent the GPIO direction/initial-value command
GpioSent ==
  \E i \in DOMAIN last.calls :
    /\ last.calls[i].fn = "FT_Write"
    /\ last.calls[i].args # <<>>
    /\ last.calls[i].args[1] = SET_BITS_LOW

\* the last operation asked the chip for the MPSSE bit-mode
MpsseRequested ==
  \E i \in DOMAIN last.calls :
    /\ last.calls[i].fn = "FT_SetBitMode"
    /\ last.calls[i].args[2] = "MPSSE"

\* C5: open_mpsse_from_device returns only if the self-test read back
\* exactly 0xFA, 0xAB; any other answer, a shorter one included, raises
\* FtdiMpsseError, and the GPIO command is sent only after the self-test
\* has passed.
C5_MpsseSelfTest ==
  last.op = "open_mpsse_from_device" =>
    /\ last.exc = "none" => last.resp = <<<<BadCommand, BogusOpcode>>>>
    /\ (last.resp # <<>> /\ last.resp[1] # <<BadCommand, BogusOpcode>>) =>
         last.exc = "FtdiMpsseError"
    /\ GpioSent => last.resp = <<<<BadCommand, BogusOpcode>>>>

\* the chip answered 0xFA with another op-code than the bogus one
C5_Witness ==
  /\ last.op = "open_mpsse_from_device"
  /\ last.resp = <<<<BadCommand, 0>>>>
  /\ last.exc = "FtdiMpsseError" /\ ~GpioSent

\* one transport call
D2xx(fn, args) == [fn |-> fn, args |-> args]

\* the transport calls of open_from_device
OpenCalls ==
  <<D2xx("FT_OpenEx", <<>>), D2xx("FT_GetDeviceInfo", <<>>),
    D2xx("FT_SetUSBParameters", <<65536, 65536>>), D2xx("FT_SetTimeouts", <<>>),
    D2xx("FT_Purge", <<1>>), D2xx("FT_Purge", <<2>>),
    D2xx("FT_ResetDevice", <<>>), D2xx("FT_SetBitMode", <<0, "RESET">>),
    D2xx("FT_SetLatencyTimer", <<LATENCY_MIN>>)>>

\* the transport calls that configure the MPSSE engine for the arguments
\* (direction, frequency, latency), open_from_device done, up to the write
\* of the bogus op-code: the clock step is the divider command, the look
\* for a rejected command and the purge of the RX buffer that
\* _set_frequency makes
MpsseSetupCalls(direction, frequency, latency) ==
  <<D2xx("FT_SetLatencyTimer", <<latency>>),
    D2xx("FT_SetFlowControl", <<"hw">>),
    D2xx("FT_SetBitMode", <<0, "RESET">>),
    D2xx("FT_Purge", <<1>>), D2xx("FT_Purge", <<2>>),
    D2xx("FT_SetChars", <<"event", 0, FALSE>>),
    D2xx("FT_SetChars", <<"error", 0, FALSE>>),
    D2xx("FT_SetBitMode", <<direction % 256, "MPSSE">>),
    D2xx("FT_Write", FrequencyCommand(Ctx(0), frequency).cmd),
    D2xx("FT_GetQueueStatus", <<>>), D2xx("FT_Purge", <<1>>),
    D2xx("FT_Write", <<LOOPBACK_START>>),
    D2xx("FT_Write", <<BogusOpcode>>)>>

\* the transport calls that follow the read of the answer
MpsseFinishCalls(direction, initial) ==
  <<D2xx("FT_Write", <<LOOPBACK_END>>),
    D2xx("FT_Write", GpioCommand(Ctx(0), initial, direction)),
    D2xx("FT_GetQueueStatus", <<>>)>>

\* the calls lo+1..hi of l are the transport reads of one read of 2 bytes:
\* FT_Read, the first for 2 bytes, and FT_GetModemStatus in turn
ReadStep(l, lo, hi) ==
  /\ hi >= lo + 2 /\ (hi - lo) % 2 = 0
  /\ l.calls[lo + 1] = D2xx("FT_Read", <<2>>)
  /\ \A i \in (lo + 1)..hi :
       l.calls[i].fn = IF (i - lo) % 2 = 1 THEN "FT_Read" ELSE "FT_GetModemStatus"

\* C21: an open_mpsse_from_device that returns has made, after the calls of
\* open_from_device, exactly these transport calls in this order: latency
\* timer, hardware flow control, bit-mode RESET, purge of RX and TX, event
\* and error character off, bit-mode MPSSE, the clock step, loopback on, the
\* bogus op-code, the transport reads of the read of 2 bytes, loopback off,
\* the GPIO command (low byte, and high byte on a wide port only), the look
\* for a rejected command; every write was taken whole, and the engine's
\* loopback is off.
C21_MpsseOpenOrder ==
  (last.op = "open_mpsse_from_device" /\ last.exc = "none") =>
    LET setup == OpenCalls \o MpsseSetupCalls(last.args[2], last.args[4], last.args[5])
        finish == MpsseFinishCalls(last.args[2], last.args[3])
        n == Len(last.calls)
    IN /\ n >= Len(setup) + Len(finish)
       /\ SubSeq(last.calls, 1, Len(setup)) = setup
       /\ ReadStep(last, Len(setup), n - Len(finish))
       /\ SubSeq(last.calls, n - Len(finish) + 1, n) = finish
       /\ last.sent = FrequencyCommand(Ctx(0), last.args[4]).cmd
                        \o <<LOOPBACK_START, BogusOpcode, LOOPBACK_END>>
                        \o GpioCommand(Ctx(0), last.args[3], last.args[2])
       /\ (SET_BITS_HIGH \in {last.sent[i] : i \in DOMAIN last.sent})
             <=> has_wide_port(Ctx(0))
       /\ ~dev.loopback

\* an FT2232H, whose port is 16 bits wide, was opened in MPSSE mode
C21_Witness ==
  /\ last.op = "open_mpsse_from_device" /\ last.exc = "none"
  /\ ftdi.devVersion = FT2232H /\ ftdi.bitmode = "MPSSE"
  /\ Len(last.calls) = 27
  /\ last.calls[25] = D2xx("FT_Write", <<LOOPBACK_END>>)
  /\ last.calls[26] = D2xx("FT_Write", <<SET_BITS_LOW, 0, 3, SET_BITS_HIGH, 0, 1>>)
  /\ ~dev.loopback

\* C6 as stated: validate_mpsse raises FtdiError when the 2 bytes it read
\* start with 0xFA, and returns normally when they do not or when nothing
\* is queued.
C6_ValidateMpsse ==
  (last.op = "validate_mpsse" /\ last.faults = 0
     /\ last.exc # "AttributeError") =>
    LET rejected == /\ last.bytes_ # <<>>
                    /\ Len(last.bytes_[1]) >= 2
                    /\ last.bytes_[1][1] = BadCommand
    IN /\ rejected => last.exc = "FtdiError"
       /\ ~rejected => last.exc = "none"

\* C7: when the chip has opened and has no MPSSE engine, or is an FT4232H
\* asked for interface 3 or 4, open_mpsse_from_device raises
\* FtdiMpsseError, leaves the session not connected and the chip out of
\* MPSSE mode, and never asks for the MPSSE bit-mode.
C7_NoMpsseInterface ==
  (/\ last.op = "open_mpsse_from_device" /\ last.faults = 0
   /\ \/ ~ChipHasMpsse
      \/ DevVersionOf(dev.devType) = FT4232H /\ last.args[1] \in {3, 4}) =>
    /\ last.exc = "FtdiMpsseError"
    /\ ftdi.handle # "open"
    /\ ~MpsseRequested
    /\ dev.bitmode # "MPSSE"

\* interface 3 of an FT4232H
C7_Witness ==
  /\ last.op = "open_mpsse_from_device" /\ last.faults = 0
  /\ DevVersionOf(dev.devType) = FT4232H /\ last.args[1] = 3
  /\ last.exc = "FtdiMpsseError" /\ ftdi.handle = "null"
  /\ last.calls[Len(last.calls)].fn = "FT_Close"

-----------------------------------------------------------------------------
(* Claims about the EEPROM                                                 *)

EepromWriteOps == {"write_eeprom", "overwrite_eeprom"}

\* the dry_run argument of the write_eeprom or overwrite_eeprom call in l
DryRun(l) == l.args[Len(l.args)]

WroteWords(l) == \E i \in DOMAIN l.calls : l.calls[i].fn = "FT_WriteEE"

\* C9: a write_eeprom or overwrite_eeprom call with dry_run true issues no
\* FT_WriteEE and leaves the device image as it was; the device image
\* changes only in a write_eeprom or overwrite_eeprom call with dry_run
\* false.
C9_DryRunWritesNothing ==
  [][/\ (last'.op \in EepromWriteOps /\ DryRun(last')) =>
          (~WroteWords(last') /\ dev'.eeprom = dev.eeprom)
     /\ dev'.eeprom # dev.eeprom =>
          (last'.op \in EepromWriteOps /\ ~DryRun(last'))]_vars

\* a dry run of overwrite_eeprom with a well-formed image that differs from
\* the device image went through all its words
C9_Witness ==
  /\ last.op = "overwrite_eeprom" /\ DryRun(last) /\ last.exc = "none"
  /\ Len(last.args[1]) = Len(dev.eeprom)
  /\ last.args[1] # dev.eeprom
  /\ ftdi.devVersion = FT232R /\ Len(last.calls) = 3

\* the EEPROM size the chip and the size hint (-1 for None) resolve to; 0
\* when the hint is not a size of the chip's EEPROM
ResolvedSize(hint) ==
  LET version == DevVersionOf(dev.devType)
  IN IF version \in DOMAIN INT_EEPROMS
     THEN IF hint \in {-1, INT_EEPROMS[version]} THEN INT_EEPROMS[version] ELSE 0
     ELSE IF hint = -1 THEN 256
     ELSE IF hint \in {128, 256} THEN hint
     ELSE 0

\* the checksum word the device image holds, and the checksum of the image
StoredChecksum ==
  LET n == IF DevVersionOf(dev.devType) = FT230X THEN 128 ELSE Len(dev.eeprom)
  IN dev.eeprom[n - 1] + 256 * dev.eeprom[n]

ImageChecksum ==
  Checksum(SubSeq(dev.eeprom, 1, Len(dev.eeprom) - 2),
           DevVersionOf(dev.devType) = FT230X)

\* C10 as stated: a write_eeprom call with dry_run false on a connected
\* session, for a non-empty region inside the resolved size and with no
\* transport failure, completes, and the checksum word of the device image
\* is then the checksum of that image.
C10_ChecksumAfterWrite ==
  (/\ last.op = "write_eeprom" /\ ~DryRun(last)
   /\ last.faults = 0 /\ ftdi.handle = "open"
   /\ last.args[2] # <<>> /\ last.args[1] >= 0
   /\ ResolvedSize(last.args[3]) # 0
   /\ last.args[1] + Len(last.args[2]) <= ResolvedSize(last.args[3])) =>
    /\ last.exc = "none"
    /\ StoredChecksum = ImageChecksum

\* the number of FT_ReadEE calls of the operation in l
WordReads(l) == Cardinality({i \in DOMAIN l.calls : l.calls[i].fn = "FT_ReadEE"})

\* C11 as stated: read_eeprom(addr, length) on a connected session, with
\* addr >= 0 and addr + length inside the resolved size and no transport
\* failure, returns the bytes image[addr .. addr+length-1] of the device
\* image, having read each enclosing 16-bit word once.
C11_ReadEeprom ==
  (/\ last.op = "read_eeprom" /\ last.faults = 0 /\ ftdi.handle = "open"
   /\ last.args[1] >= 0 /\ last.args[2] >= 0
   /\ ResolvedSize(last.args[3]) # 0
   /\ last.args[1] + last.args[2] <= ResolvedSize(last.args[3])) =>
    /\ last.exc = "none"
    /\ last.ret = SubSeq(dev.eeprom, last.args[1] + 1, last.args[1] + last.args[2])
    /\ WordReads(last) =
         IF last.args[2] = 0 THEN 0
         ELSE ((last.args[1] + last.args[2] + 1) \div 2) - (last.args[1] \div 2)

\* the 0-based byte offsets of the 16-bit words that overlap the len bytes
\* from addr on
OverlappingBytes(addr, len) ==
  {j \in 0..(Len(dev.eeprom) - 1) : (addr \div 2) * 2 <= j /\ j \div 2 <= (addr + len - 1) \div 2}

\* the 0-based byte offsets of the checksum word
ChecksumBytes ==
  LET n == IF DevVersionOf(dev.devType) = FT230X THEN 128 ELSE Len(dev.eeprom)
  IN {n - 2, n - 1}

\* C25 as stated: a write_eeprom call with dry_run false on a connected
\* session, for a non-empty region inside the resolved size and with no
\* transport failure, completes; its FT_WriteEE calls address only words
\* that overlap the region and the checksum word, every byte of the device
\* image outside those words is what it was, and the bytes of the region
\* outside the checksum word are those of data.
C25_WriteEepromRegion ==
  [][(/\ last'.op = "write_eeprom" /\ ~DryRun(last')
      /\ last'.faults = 0 /\ ftdi'.handle = "open"
      /\ last'.args[2] # <<>> /\ last'.args[1] >= 0
      /\ ResolvedSize(last'.args[3]) # 0
      /\ last'.args[1] + Len(last'.args[2]) <= ResolvedSize(last'.args[3])) =>
       LET addr == last'.args[1]
           data == last'.args[2]
           words == OverlappingBytes(addr, Len(data)) \cup ChecksumBytes
       IN /\ last'.exc = "none"
          /\ \A i \in DOMAIN last'.calls :
               last'.calls[i].fn = "FT_WriteEE" =>
                 2 * last'.calls[i].args[1] \in words
          /\ \A j \in 0..(Len(dev.eeprom) - 1) :
               j \notin words => dev'.eeprom[j + 1] = dev.eeprom[j + 1]
          /\ \A j \in addr..(addr + Len(data) - 1) :
               j \notin ChecksumBytes => dev'.eeprom[j + 1] = data[j - addr + 1]]_vars

\* the reference fold over the first n 16-bit little-endian words of
\* image: from 0xAAAA, each word is XORed in and the accumulator rotated
\* left by one bit within 16 bits; with skip, the words at the byte offsets
\* 0x24 to 0x7F are passed over
RotateLeft16(x) == (2 * x + x \div 32768) % 65536

\* the fold over the words lo..n of image (word k at the byte offset
\* 2 * (k - 1)), from the accumulator seed
RECURSIVE FoldWords(_, _, _, _, _)
FoldWords(image, lo, n, seed, skip) ==
  IF n < lo THEN seed
  ELSE LET offset == 2 * (n - 1)
           word == image[offset + 1] + 256 * image[offset + 2]
           acc == FoldWords(image, lo, n - 1, seed, skip)
       IN IF skip /\ offset \in 36..127 THEN acc
          ELSE RotateLeft16(BitXor(acc, word))

\* the words a fold takes in one piece
FoldPiece == 8

\* the fold over the first n words, a piece at a time
RECURSIVE ReferenceFold(_, _, _)
ReferenceFold(image, n, skip) ==
  IF n <= FoldPiece THEN FoldWords(image, 1, n, 43690, skip)
  ELSE LET m == ((n - 1) \div FoldPiece) * FoldPiece
           head == ReferenceFold(image, m, skip)
       IN IF head >= 0 THEN FoldWords(image, m + 1, n, head, skip) ELSE head

\* C26: calc_eeprom_checksum of an empty image or of one of odd length
\* raises ValueError; of a non-empty image of even length, on a connected
\* session, it returns the reference fold over the words of the image,
\* which skips the words at byte offsets 0x24 to 0x7F on the FT230X and on
\* no other chip, and the value lies in 0..0xFFFF.
C26_ChecksumIsReferenceFold ==
  last.op = "calc_eeprom_checksum" =>
    LET image == last.args[1]
    IN IF image = <<>> \/ Len(image) % 2 = 1
       THEN last.exc = "ValueError"
       ELSE ftdi.handle = "open" =>
              /\ last.exc = "none"
              /\ last.ret = ReferenceFold(image, Len(image) \div 2,
                                          ftdi.devVersion = FT230X)
              /\ last.ret \in 0..65535

\* the checksum of an image with a non-zero byte in the MTP user section
\* was computed on an FT230X
C26_Witness ==
  /\ last.op = "calc_eeprom_checksum" /\ last.exc = "none"
  /\ ftdi.devVersion = FT230X
  /\ Len(last.args[1]) = 130 /\ last.args[1][37] = 128
  /\ last.ret = ReferenceFold(last.args[1], 65, TRUE)
  /\ last.ret # ReferenceFold(last.args[1], 65, FALSE)

\* the latency timer calls among the transport calls of l
LatencyTimerCalls(l) ==
  {i \in DOMAIN l.calls : l.calls[i].fn \in {"FT_GetLatencyTimer", "FT_SetLatencyTimer"}}

\* C27: on an FT232R a write_eeprom or overwrite_eeprom call that reaches
\* the transport and either completes or fails in a word write reads the
\* latency timer, sets it to 77, issues its word writes and then sets the
\* latency timer to the value read, which the chip holds afterwards; on
\* another chip no such call reads or sets the latency timer, and the
\* latency timer of the chip is what it was.
C27_EepromLatencyRestored ==
  [][last'.op \in EepromWriteOps /\ dev'.sends = dev.sends =>
       LET calls == last'.calls
           n == Len(calls)
       IN IF ftdi'.devVersion = FT232R
          THEN (/\ n > 0
                /\ last'.exc = "none" \/ last'.msg = "EEPROM Write Error") =>
                 /\ n >= 3
                 /\ calls[1].fn = "FT_GetLatencyTimer"
                 /\ calls[2] = D2xx("FT_SetLatencyTimer", <<LATENCY_EEPROM_FT232R>>)
                 /\ \A i \in 3..(n - 1) : calls[i].fn = "FT_WriteEE"
                 /\ calls[n] = D2xx("FT_SetLatencyTimer", <<dev.latency>>)
                 /\ dev'.latency = dev.latency
          ELSE LatencyTimerCalls(last') = {} /\ dev'.latency = dev.latency]_vars

\* on an FT232R whose latency timer was not the one after reset, a word
\* write of overwrite_eeprom failed and the chip has its latency timer back
C27_Witness ==
  /\ last.op = "overwrite_eeprom" /\ last.msg = "EEPROM Write Error"
  /\ ftdi.devVersion = FT232R
  /\ dev.latency = SlowLatency
  /\ last.calls[Len(last.calls)] = D2xx("FT_SetLatencyTimer", <<SlowLatency>>)

\* the size _check_eeprom_size settles on for a size hint (-1 for None); 0
\* when it refuses the hint
AcceptedSize(hint) ==
  LET version == DevVersionOf(dev.devType)
  IN IF version \in DOMAIN INT_EEPROMS
     THEN IF hint \in {-1, 0, INT_EEPROMS[version]} THEN INT_EEPROMS[version] ELSE 0
     ELSE ResolvedSize(hint)

\* the image given to overwrite_eeprom has not the length of the EEPROM
WrongImageLength(image) ==
  LET version == DevVersionOf(dev.devType)
  IN IF version \in DOMAIN INT_EEPROMS THEN Len(image) # INT_EEPROMS[version]
     ELSE Len(image) \notin {128, 256}

\* the session is connected and holds the type of the chip it is opened on
SessionKnowsChip ==
  ftdi.handle = "open" /\ ftdi.devVersion = DevVersionOf(dev.devType)

-----------------------------------------------------------------------------
(* Claims about the baud rate                                              *)

\* what _convert_baudrate makes of a rate in the current state
Converted(baudrate) == _convert_baudrate(Ctx(0), baudrate)

\* the rate _convert_baudrate finds achievable is more than 3 % off the
\* requested one
OutOfTolerance(baudrate) ==
  /\ ~is_mpsse(Ctx(0))
  /\ Ok(Converted(baudrate))
  /\ ToleranceExceeded(Converted(baudrate).ret[1], baudrate)

\* C13: on a session that is not in MPSSE mode, when the rate that
\* _convert_baudrate finds achievable deviates from the requested rate by
\* more than 3 %, set_baudrate(rate, constrain=True) raises ValueError,
\* issues no transport call and leaves the session's and the chip's baud
\* rate unchanged; set_baudrate(rate, constrain=False) with no transport
\* failure completes, gives the achievable rate to FT_SetBaudRate and makes
\* it the session's baud rate.
C13_BaudrateTolerance ==
  [][(last'.op = "set_baudrate" /\ OutOfTolerance(last'.args[1])) =>
       /\ last'.args[2] =>
            /\ last'.exc = "ValueError"
            /\ last'.calls = <<>>
            /\ ftdi'.baudrate = ftdi.baudrate
            /\ dev'.baudrate = dev.baudrate
       /\ (~last'.args[2] /\ last'.faults = 0) =>
            /\ last'.exc = "none"
            /\ last'.calls =
                 <<[fn |-> "FT_SetBaudRate",
                    args |-> <<Converted(last'.args[1]).ret[1]>>]>>
            /\ ftdi'.baudrate = Converted(last'.args[1]).ret[1]
            /\ dev'.baudrate = ftdi'.baudrate]_vars

\* 2500000 baud was refused on a full-speed chip (2400000 is achievable,
\* 4 % off) after 115200 baud had been asked for and 115385 set
C13_Witness ==
  /\ last.op = "set_baudrate" /\ last.args = <<2500000, TRUE>>
  /\ ftdi.devVersion = FT232R /\ ftdi.bitmode = "RESET"
  /\ last.exc = "ValueError" /\ last.msg = "Baudrate tolerance exceeded"
  /\ ftdi.baudrate = 115385 /\ dev.baudrate = 115385

NominalRates == {9600, 19200, 38400, 57600, 115200}

\* the session is open on a chip that takes the standard formula at the
\* 3 MHz reference clock
StandardGeneration ==
  SessionKnowsChip /\ ftdi.devVersion # FT232AM /\ ~is_H_series(Ctx(0))

\* C14: with the standard formula at the 3 MHz reference clock,
\* _convert_baudrate gives for each of 9600, 19200, 38400, 57600 and 115200
\* an achievable rate within 3 % of it, and the divisor value for 115200 is
\* not the divisor value for 57600; set_baudrate of such a rate, outside
\* MPSSE mode and with no transport failure, completes and makes the
\* achievable rate the session's baud rate.
C14_NominalRates ==
  StandardGeneration =>
    /\ \A rate \in NominalRates :
         /\ Ok(Converted(rate))
         /\ ~ToleranceExceeded(Converted(rate).ret[1], rate)
    /\ Converted(115200).ret[2] # Converted(57600).ret[2]
    /\ (/\ last.op = "set_baudrate" /\ last.args[1] \in NominalRates
        /\ last.faults = 0 /\ ~is_mpsse(Ctx(0))) =>
         /\ last.exc = "none"
         /\ ftdi.baudrate = Converted(last.args[1]).ret[1]
         /\ ~ToleranceExceeded(ftdi.baudrate, last.args[1])

\* 57600 baud was asked for on a full-speed chip in UART mode, under the
\* tolerance test, and 57554 baud set
C14_Witness ==
  /\ StandardGeneration /\ ftdi.bitmode = "RESET"
  /\ last.op = "set_baudrate" /\ last.args = <<57600, TRUE>>
  /\ last.exc = "none" /\ ftdi.baudrate = 57554
  /\ Converted(57600).ret[2] = 49204 /\ Converted(115200).ret[2] = 26

\* the reference clock and the bitbang ratio that go with a rate in the
\* current state
ReferenceClock(baudrate) ==
  IF ftdi.devVersion # FT232AM /\ is_H_series(Ctx(0)) /\ baudrate >= 1200
  THEN BAUDRATE_REF_HIGH ELSE BAUDRATE_REF_BASE

BitbangRatio(baudrate) ==
  IF ~is_bitbang_enabled(Ctx(0)) THEN 1
  ELSE IF ReferenceClock(baudrate) = BAUDRATE_REF_HIGH
       THEN BITBANG_BAUDRATE_RATIO_HIGH ELSE BITBANG_BAUDRATE_RATIO_BASE

\* the rate passes the range tests of the current chip
AcceptedRate(baudrate) ==
  IF ftdi.devVersion = FT232AM
  THEN 0 < baudrate /\ baudrate <= BAUDRATE_REF_BASE
  ELSE /\ baudrate <= ReferenceClock(baudrate)
       /\ baudrate >= (ReferenceClock(baudrate) \div 16384) + 1

\* the rounded divisor in 1/8 units that the computation chooses for a rate
ChosenDiv8(baudrate) ==
  IF ftdi.devVersion = FT232AM THEN LegacyDiv8(baudrate)
  ELSE RoundDiv(8 * ReferenceClock(baudrate), baudrate \div BitbangRatio(baudrate))

\* the rate a divisor of div8 1/8 units yields: 8 times the reference clock
\* over div8, rounded to nearest, times the bitbang ratio
YieldedRate(baudrate, div8) ==
  ((8 * ReferenceClock(baudrate) + div8 \div 2) \div div8) * BitbangRatio(baudrate)

\* C28 as stated: on a session that knows its chip, of whatever generation,
\* _convert_baudrate of a rate that passes the range tests returns as the
\* achievable rate the rate the chosen divisor yields.
C28_AchievableRate ==
  SessionKnowsChip =>
    \A rate \in BaudRates :
      AcceptedRate(rate) =>
        /\ Ok(Converted(rate))
        /\ Converted(rate).ret[1] = YieldedRate(rate, ChosenDiv8(rate))

\* round(clock / f) - 1 kept within 0..0xFFFF, a half rounded up
ClampedDivisor(clock, f) ==
  LET rounded == clock \div f + (IF 2 * (clock % f) >= f THEN 1 ELSE 0)
      divisor == rounded - 1
  IN IF divisor < 0 THEN 0 ELSE IF divisor > 65535 THEN 65535 ELSE divisor

\* the distance of clock / (divisor + 1) from f, as a numerator over
\* divisor + 1; the relative error is this distance over f
Distance(clock, divisor, f) ==
  IF clock >= f * (divisor + 1) THEN clock - f * (divisor + 1)
  ELSE f * (divisor + 1) - clock

\* the high clock serves f better than the base clock
HighClockCloser(f) ==
  RatLess(Distance(BUS_CLOCK_HIGH, ClampedDivisor(BUS_CLOCK_HIGH, f), f),
          ClampedDivisor(BUS_CLOCK_HIGH, f) + 1,
          Distance(BUS_CLOCK_BASE, ClampedDivisor(BUS_CLOCK_BASE, f), f),
          ClampedDivisor(BUS_CLOCK_BASE, f) + 1)

\* the clock and the divisor set_frequency(f) is to select on the chip of
\* the session
SelectedClock(f) ==
  IF is_H_series(Ctx(0)) /\ HighClockCloser(f) THEN BUS_CLOCK_HIGH
  ELSE BUS_CLOCK_BASE

SelectedDivisor(f) == ClampedDivisor(SelectedClock(f), f)

\* the command that programs the divisor, low byte first, after the byte
\* that selects the clock on an H-series chip
DivisorCommand(f) ==
  (IF ~is_H_series(Ctx(0)) THEN <<>>
   ELSE IF SelectedClock(f) = BUS_CLOCK_HIGH THEN <<DISABLE_CLK_DIV5>>
   ELSE <<ENABLE_CLK_DIV5>>)
    \o <<SET_TCK_DIVISOR, SelectedDivisor(f) % 256, SelectedDivisor(f) \div 256>>

\* C29: set_frequency(f) of a positive f on a session in MPSSE mode raises
\* FtdiFeatureError and issues no transport call when f is above 6 MHz, or
\* above 30 MHz on an H-series chip; otherwise its first transport call
\* writes the divisor command of the divisor, among round(6 MHz / f) - 1 and
\* on H-series round(30 MHz / f) - 1, each kept within 0..0xFFFF, whose
\* frequency has the smaller relative error, the base clock on a tie, low
\* byte first, and when it completes it returns clock / (divisor + 1) of the
\* selected clock.
C29_FrequencyDivisor ==
  (last.op = "set_frequency" /\ ftdi.handle = "open" /\ ftdi.bitmode = "MPSSE") =>
    LET f == last.args[1]
    IN IF f > (IF is_H_series(Ctx(0)) THEN BUS_CLOCK_HIGH ELSE BUS_CLOCK_BASE)
       THEN last.exc = "FtdiFeatureError" /\ last.calls = <<>>
       ELSE /\ last.calls # <<>>
            /\ last.calls[1] = D2xx("FT_Write", DivisorCommand(f))
            /\ last.exc = "none" =>
                 last.ret = <<SelectedClock(f), SelectedDivisor(f) + 1>>
            /\ last.faults = 0 => last.exc = "none"

\* 5 MHz was asked for on an H-series chip and the high clock over 6
\* selected, where the base clock would have given 6 MHz
C29_Witness ==
  /\ last.op = "set_frequency" /\ last.args = <<5000000>>
  /\ last.exc = "none" /\ is_H_series(Ctx(0))
  /\ last.ret = <<BUS_CLOCK_HIGH, 6>>
  /\ last.calls[1] = D2xx("FT_Write", <<DISABLE_CLK_DIV5, SET_TCK_DIVISOR, 5, 0>>)

-----------------------------------------------------------------------------
(* Claims about the clock and drive modes                                  *)

ClockOps ==
  {"enable_adaptive_clock", "enable_3phase_clock", "enable_drivezero_mode"}

\* what the session must be for the operation op: in MPSSE mode, and for
\* the 3-phase clock on a high-speed chip, for drive-zero on an FT232H
ClockPrecondition(op) ==
  /\ ftdi.bitmode = "MPSSE"
  /\ op = "enable_3phase_clock" => ftdi.devVersion \in {FT2232H, FT4232H, FT232H}
  /\ op = "enable_drivezero_mode" => ftdi.devVersion = FT232H

\* the command of the operation in l
ClockCommand(l) ==
  CASE l.op = "enable_adaptive_clock" ->
         <<IF l.args[1] THEN ENABLE_CLK_ADAPTIVE ELSE DISABLE_CLK_ADAPTIVE>>
    [] l.op = "enable_3phase_clock" ->
         <<IF l.args[1] THEN ENABLE_CLK_3PHASE ELSE DISABLE_CLK_3PHASE>>
    [] l.op = "enable_drivezero_mode" ->
         <<DRIVE_ZERO, l.args[1] % 256, (l.args[1] \div 256) % 256>>

\* C15: enable_adaptive_clock, enable_3phase_clock and
\* enable_drivezero_mode raise and issue no transport call when the session
\* is not in MPSSE mode (FtdiMpsseError), when the chip is not of the H
\* series (3-phase clock) and when it has no drive-zero mode (drive-zero);
\* what they write is their command, and on a connected session with the
\* precondition met and no transport failure they write it and complete.
C15_ClockPreconditions ==
  last.op \in ClockOps =>
    /\ ~ClockPrecondition(last.op) =>
         (last.exc # "none" /\ last.calls = <<>> /\ last.sent = <<>>)
    /\ ftdi.bitmode # "MPSSE" => last.exc = "FtdiMpsseError"
    /\ last.sent # <<>> => last.sent = ClockCommand(last)
    /\ (/\ ClockPrecondition(last.op) /\ ftdi.handle = "open"
        /\ last.faults = 0) =>
         (last.exc = "none" /\ last.sent = ClockCommand(last))

\* the 3-phase clock was refused on an FT2232C in MPSSE mode
C15_Witness ==
  /\ last.op = "enable_3phase_clock" /\ ftdi.bitmode = "MPSSE"
  /\ ftdi.handle = "open" /\ ftdi.devVersion = FT2232C
  /\ last.exc = "FtdiFeatureError" /\ last.calls = <<>>

-----------------------------------------------------------------------------
(* Claims about configuration errors                                       *)

\* the arguments of an EEPROM access do not name a region of an EEPROM of
\* the chip: the size hint is not a size of its EEPROM, addr is negative or
\* addr + length is beyond the size
InvalidRegion(addr, length0, hint) ==
  LET size == ResolvedSize(hint)
      length == IF length0 = -1 THEN size ELSE length0
  IN size = 0 \/ addr < 0 \/ addr + length > size

\* the request l is made, in the current state, with arguments that are not
\* valid
InvalidRequest(l) ==
  \/ l.op = "set_baudrate" /\ l.args[2] /\ OutOfTolerance(l.args[1])
  \/ /\ l.op = "read_eeprom" /\ SessionKnowsChip
     /\ InvalidRegion(l.args[1], l.args[2], l.args[3])
  \/ /\ l.op = "write_eeprom" /\ SessionKnowsChip
     /\ InvalidRegion(l.args[1], Len(l.args[2]), l.args[3])
  \/ /\ l.op = "set_cbus_direction"
     /\ (l.args[1] \notin 0..15 \/ l.args[2] \notin 0..15)
  \/ l.op = "set_flowctrl" /\ l.args[1] \notin {"hw", ""}

\* write_eeprom is given no data and a size hint that is accepted
NothingToWrite(l) ==
  l.op = "write_eeprom" /\ l.args[2] = <<>> /\ AcceptedSize(l.args[3]) # 0

-----------------------------------------------------------------------------
(* Claims about the life of a session                                      *)

\* the operations that need the device
DeviceOps ==
  {"reset", "read_data", "write_data", "purge_buffers", "set_bitmode",
   "device_version"}

\* the operation l needs the device: a read of no byte and a write of no
\* byte are left out
NeedsDevice(l) ==
  /\ l.op \in DeviceOps
  /\ l.op = "read_data" => l.args[1] > 0
  /\ l.op = "write_data" => l.args[1] # <<>>

\* C17: reset, read_data of at least one byte, write_data of at least one
\* byte, purge_buffers, set_bitmode and device_version on a session that was
\* never opened or that has been closed raise FtdiError and make no
\* transport call.
C17_NotConnected ==
  (NeedsDevice(last) /\ ftdi.handle # "open") =>
    (last.exc = "FtdiError" /\ last.calls = <<>>)

\* C18 as stated: after a close that returned the session is not connected
\* and the read cache is empty with read offset 0.
C18_CloseClearsCache ==
  (last.op = "close" /\ last.exc = "none") =>
    /\ ftdi.handle # "open"
    /\ ftdi.readbuffer = <<>>
    /\ ftdi.readoffset = 0

\* C18 amended: after a close that returned the session is not connected;
\* FT_Close was called, once, exactly when the session was connected; the
\* read cache buffer and the read offset are what they were before the close.
\* (A step in which the chip receives bytes from the line is no step of the
\* session; it leaves last as it is.)
C18_CloseReleasesHandle ==
  [][(dev'.sends = dev.sends /\ last'.op = "close" /\ last'.exc = "none") =>
       /\ ftdi'.handle # "open"
       /\ last'.calls = IF ftdi.handle = "open"
                        THEN <<[fn |-> "FT_Close", args |-> <<>>]>>
                        ELSE <<>>
       /\ ftdi'.readbuffer = ftdi.readbuffer
       /\ ftdi'.readoffset = ftdi.readoffset]_vars

\* a session that had read bytes was closed: the handle is released and the
\* bytes are still in the read cache buffer, all of them read
C18_Witness ==
  /\ last.op = "close" /\ last.exc = "none"
  /\ last.calls = <<[fn |-> "FT_Close", args |-> <<>>]>>
  /\ ftdi.handle = "null"
  /\ ftdi.readbuffer # <<>> /\ ftdi.readoffset = Len(ftdi.readbuffer)

\* C20: whatever opens, reads, purges, changes of the read chunk size, resets
\* and closes the session has gone through, the read offset is at least 0
\* and at most the length of the read cache buffer.
C20_ReadOffsetInCache ==
  0 <= ftdi.readoffset /\ ftdi.readoffset <= Len(ftdi.readbuffer)

\* a read has filled the cache buffer with MaxReadLen bytes and taken them all
C20_Witness ==
  /\ last.op = "read_data" /\ last.exc = "none"
  /\ Len(last.ret) = MaxReadLen
  /\ Len(ftdi.readbuffer) = MaxReadLen /\ ftdi.readoffset = MaxReadLen

\* the operations that drop the read cache
CacheClearingOps == {"purge_rx_buffer", "purge_buffers", "read_data_set_chunksize"}

\* C30: when purge_rx_buffer, purge_buffers or read_data_set_chunksize has
\* returned, the read cache is empty and the read offset 0; the next
\* operation of the session, when it is a read that returns, starts from an
\* empty cache and returns the payload of the packets it fetched itself.
C30_PurgeEmptiesCache ==
  [][/\ (last'.op \in CacheClearingOps /\ last'.exc = "none") =>
          (ftdi'.readbuffer = <<>> /\ ftdi'.readoffset = 0)
     /\ (/\ last.op \in CacheClearingOps /\ last.exc = "none"
         /\ last'.op = "read_data" /\ last'.exc = "none") =>
          /\ last'.before.cached = <<>>
          /\ last'.ret = PayloadsUpTo(last'.packets, Len(last'.packets))]_vars

\* purge_rx_buffer returned on a session the device had sent bytes to, and
\* the cache is empty
C30_Witness ==
  /\ last.op = "purge_rx_buffer" /\ last.exc = "none"
  /\ dev.sends > 0
  /\ ftdi.readbuffer = <<>> /\ ftdi.readoffset = 0

\* C31 as stated: when reset has returned, with or without the cycle of the
\* USB port, the read cache is empty and the read offset 0, and the next
\* operation of the session, when it is a read that returns, returns the
\* payload of the packets it fetched itself.
C31_ResetEmptiesCache ==
  [][/\ (last'.op = "reset" /\ last'.exc = "none") =>
          (ftdi'.readbuffer = <<>> /\ ftdi'.readoffset = 0)
     /\ (/\ last.op = "reset" /\ last.exc = "none"
         /\ last'.op = "read_data" /\ last'.exc = "none") =>
          last'.ret = PayloadsUpTo(last'.packets, Len(last'.packets))]_vars

\* C31 amended: a reset that returns leaves the read cache buffer and the
\* read offset as they were; no byte of the buffer is unread before it or
\* after it, so the next operation of the session, when it is a read that
\* returns, starts with nothing cached and returns the payload of the
\* packets it fetched itself.
C31_ResetKeepsReadCache ==
  [][/\ (dev'.sends = dev.sends /\ last'.op = "reset" /\ last'.exc = "none") =>
          /\ ftdi'.readbuffer = ftdi.readbuffer
          /\ ftdi'.readoffset = ftdi.readoffset
          /\ ftdi'.readoffset = Len(ftdi'.readbuffer)
     /\ (/\ last.op = "reset" /\ last.exc = "none"
         /\ last'.op = "read_data" /\ last'.exc = "none") =>
          /\ last'.before.cached = <<>>
          /\ last'.ret = PayloadsUpTo(last'.packets, Len(last'.packets))]_vars

\* a session that had read bytes was reset with a cycle of the USB port: the
\* bytes are still in the read cache buffer, all of them read
C31_Witness ==
  /\ last.op = "reset" /\ last.args = <<TRUE>> /\ last.exc = "none"
  /\ last.calls = <<D2xx("FT_ResetDevice", <<>>), D2xx("FT_CyclePort", <<>>)>>
  /\ ftdi.readbuffer # <<>> /\ ftdi.readoffset = Len(ftdi.readbuffer)

-----------------------------------------------------------------------------
(* C32                                                                     *)

\* the operations that request a bit-mode: set_bitmode itself, the opens
\* and the CBUS GPIO accesses
ModeChangingOps ==
  {"set_bitmode", "open_from_device", "open_mpsse_from_device",
   "open_bitbang_from_device", "get_cbus_gpio", "set_cbus_gpio"}

ModeKeepingOps ==
  {"write_data", "read_data", "purge_buffers", "validate_mpsse",
   "set_baudrate", "set_frequency", "set_latency_timer",
   "get_latency_timer", "set_dynamic_latency"}

\* the operation just done asked the transport for this bit-mode
RequestedMode(l, mode) ==
  \E i \in 1..Len(l.calls) :
    l.calls[i].fn = "FT_SetBitMode" /\ l.calls[i].args[2] = mode

\* C32: the operating mode of the session changes only in set_bitmode, an
\* open or a CBUS GPIO access, and then to a mode that the operation asked
\* the transport for and that the transport took (the chip is in it);
\* write_data, read_data, purge_buffers, validate_mpsse, set_baudrate,
\* set_frequency and the latency operations leave it as it was.
C32_ModeChangesBySetBitmode ==
  [][/\ ftdi'.bitmode # ftdi.bitmode =>
          /\ last'.op \in ModeChangingOps
          /\ RequestedMode(last', ftdi'.bitmode)
          /\ dev'.bitmode = ftdi'.bitmode
     /\ last'.op \in ModeKeepingOps => ftdi'.bitmode = ftdi.bitmode]_vars

\* set_cbus_gpio from RESET mode: the transport took the CBUS request and
\* refused the request that puts RESET back, and the session is in CBUS mode
C32_Witness ==
  /\ last.op = "set_cbus_gpio"
  /\ last.calls = <<D2xx("FT_SetBitMode", <<17, "CBUS">>),
                    D2xx("FT_SetBitMode", <<0, "RESET">>)>>
  /\ last.msg = "Unable to set bitmode"
  /\ ftdi.bitmode = "CBUS"
  /\ dev.bitmode = "CBUS"

-----------------------------------------------------------------------------
(* C33                                                                     *)

\* what FT_Read handed back for a packet: the packet less the two status
\* bytes that _read put in front of it
RawOf(packet) == SubSeq(packet, 3, Len(packet))

RECURSIVE RawsUpTo(_, _)
RawsUpTo(packets, i) ==
  IF i = 0 THEN <<>>
  ELSE RawsUpTo(packets, i - 1) \o RawOf(packets[i])

\* C33: over a transport whose reads hand back payload only, a read that
\* returns hands back the unread cache followed by every byte the transport
\* reads returned, in order, the rest staying in the cache for the next
\* read; no byte is dropped or repeated.
C33_EveryByteDelivered ==
  (last.op \in ReadOps /\ ~dev.framed /\ last.exc = "none") =>
    last.ret \o CacheRest
      = last.before.cached \o RawsUpTo(last.packets, Len(last.packets))

-----------------------------------------------------------------------------
(* C34                                                                     *)

\* C34: a transport read of read_data_bytes or read_data asks for no more
\* bytes than the raw receive buffer holds, which is the read chunk size.
C34_ReadWithinRawBuffer ==
  last.op \in ReadOps =>
    \A i \in DOMAIN last.calls :
      last.calls[i].fn = "FT_Read" =>
        last.calls[i].args[1] <= ftdi.readbuffer_chunksize

-----------------------------------------------------------------------------
(* C35, C36                                                                *)

OpenOps ==
  {"open_from_device", "open_mpsse_from_device", "open_bitbang_from_device"}

\* C35: an open that raises leaves the session not connected, and the
\* transport has no more handles open than before the call.
C35_FailedOpenReleases ==
  [][(last'.op \in OpenOps /\ last'.exc # "none") =>
       (ftdi'.handle # "open" /\ dev'.opened <= dev.opened)]_vars

\* C36: the transport has no handle open but the one the session holds.
C36_OneOpenHandle ==
  dev.opened = IF ftdi.handle = "open" THEN 1 ELSE 0

-----------------------------------------------------------------------------
(* C37                                                                     *)

\* C37: while dynamic latency is configured on a connected session, the
\* latency the session tracks is the value in the chip's latency timer.
C37_TrackedLatencyIsProgrammed ==
  (ftdi.handle = "open" /\ ftdi.latency_threshold # 0) =>
    ftdi.latency = dev.latency

-----------------------------------------------------------------------------
(* C38                                                                     *)

CbusOps == {"get_cbus_gpio", "set_cbus_gpio"}

\* the operation ended in the request that puts the old mode back, which
\* the transport refused
RestoreRefused(l, oldmode) ==
  /\ Len(l.calls) >= 2
  /\ l.calls[Len(l.calls)] = D2xx("FT_SetBitMode", <<0, oldmode>>)
  /\ l.msg = "Unable to set bitmode"

-----------------------------------------------------------------------------
(* C39                                                                     *)

\* what a read raises when a transport call of its own fails
ReadTransportErrors ==
  {"Unable to read", "Unable to latency timer", "Write Failed",
   "Usb bulk write error"}

\* C39: a read never raises either "Internal error"; on a session that knows
\* its packet size it returns data, or raises the error of a transport call
\* that failed, and on any other it raises "max_packet_size is bogus" before
\* it reads.
C39_NoInternalError ==
  last.op \in ReadOps =>
    /\ last.msg \notin {"Internal error", "Internal Error"}
    /\ IF ftdi.max_packet_size = 0
       THEN last.msg = "max_packet_size is bogus" /\ last.calls = <<>>
       ELSE \/ last.exc = "none"
            \/ last.faults > 0 /\ last.msg \in ReadTransportErrors

\* a read went round the loop three times, each transport read bringing
\* payload, and returned the size asked for
C39_Witness ==
  /\ last.op = "read_data_bytes" /\ last.exc = "none"
  /\ Len(last.packets) = 3
  /\ \A i \in 1..3 : Len(last.packets[i]) > 2
  /\ Len(last.ret) = last.args[1]

-----------------------------------------------------------------------------
(* C40: rates at the low end of the accepted range, in UART and bit-bang   *)
(* mode                                                                    *)

\* the lowest rate the 3 MHz range test accepts and the rate below it, a
\* multiple of 16 just above, the lowest rate of the 12 MHz clock, and the
\* lowest accepted rates times the two bitbang ratios
DivisorRates == {183, 184, 192, 1200, 2944, 3665}

ChooseDivisorRate == SetBaudrate(DivisorRates)

NextDivisor == OpenFromDevice \/ Close \/ ChooseDivisorRate \/ ChooseBitmode

SpecDivisor == InitBaud /\ [][NextDivisor]_vars

\* line 2229: the integer part of the divisor, div8 >> 3
IntegerPart(baudrate) == ChosenDiv8(baudrate) \div 8

\* the 16-bit value of a divisor word whose integer part and fractional code
\* share no bit
DisjointValue(baudrate) ==
  LET word == IntegerPart(baudrate)
                + FRAC_DIV_CODE[(ChosenDiv8(baudrate) % 8) + 1] * 16384
  IN (IF word = 1 THEN 0 ELSE IF word = 16385 THEN 1 ELSE word) % 65536

\* for the rates of a set that pass the range tests, the integer part of the
\* divisor is at most 0x3FFF and the divisor value carries it below the
\* fractional code
IntegerPartFits(rates) ==
  \A rate \in rates :
    AcceptedRate(rate) =>
      /\ Ok(Converted(rate))
      /\ IntegerPart(rate) <= 16383
      /\ Converted(rate).ret[2] = DisjointValue(rate)

\* C40 as stated: on a session that knows its chip, of a generation that uses
\* the standard computation, in UART mode and in bitbang mode, every rate that
\* passes the range tests gets a divisor whose integer part is at most 0x3FFF
\* and lies below the fractional code in the divisor value.
C40_IntegerPartFits ==
  SessionKnowsChip /\ ftdi.devVersion # FT232AM /\ ~is_mpsse(Ctx(0)) =>
    IntegerPartFits(DivisorRates)

\* the same outside bitbang mode
UartIntegerPartFits ==
  /\ SessionKnowsChip /\ ftdi.devVersion # FT232AM
  /\ ~is_mpsse(Ctx(0)) /\ ~is_bitbang_enabled(Ctx(0))
  => IntegerPartFits(DivisorRates)

\* set_baudrate(192) completed in bitbang mode on a full-speed chip
BitbangLowRateSet ==
  /\ StandardGeneration /\ is_bitbang_enabled(Ctx(0))
  /\ last.op = "set_baudrate" /\ last.args = <<192, TRUE>>
  /\ last.exc = "none" /\ ftdi.baudrate = 192

====
